---- MODULE Spec2Model ----
(***************************************************************************)
(* BlitzBallz: the turn state machine of Game.ts, the collision code of    *)
(* Physics.ts and the row logic of GridManager.ts.                          *)
(*                                                                          *)
(* Lengths are integers in units of 1/PX pixel, times are milliseconds,     *)
(* velocities are length units per second.  The canvas container is        *)
(* BASE_WIDTH pixels wide, so Renderer.resize computes scale = 1.           *)
(***************************************************************************)
EXTENDS Integers, Sequences, FiniteSets, TLC

Null == "null"
\* a nullable object is a sequence of length 0 (null) or 1
None == <<>>
Some(v) == <<v>>

(************************* constants.ts ************************************)
GRID_COLS == 11
GRID_ROWS == 11
GRID_GAP == 2
BASE_BALL_RADIUS == 8
PICKUP_RADIUS == 12
BALL_SPEED == 600
BALL_LAUNCH_DELAY == 50
MIN_BRICKS_PER_ROW == 3
MAX_BRICKS_PER_ROW == 5
DESTROY_ANIMATION_DURATION == 50
COLLECT_ANIMATION_DURATION == 300
MAX_DELTA_MS == 100
SPAWN_ROW == 2

PickupTypes == {"ball", "x2", "x3", "x5", "x10"}

PICKUP_VALUES ==
  [t \in PickupTypes |->
     CASE t = "ball" -> 1 [] t = "x2" -> 2 [] t = "x3" -> 3
       [] t = "x5" -> 5 [] t = "x10" -> 10]

MULTIPLIER_SPAWN_INTERVALS ==
  [t \in PickupTypes |->
     CASE t = "ball" -> 1 [] t = "x2" -> 10 [] t = "x3" -> 15
       [] t = "x5" -> 20 [] t = "x10" -> 50]

(************************* Renderer.resize *********************************)
\* length units per pixel
PX == GRID_COLS * 10
BASE_WIDTH == 350

gameWidth == BASE_WIDTH * PX
gameHeight == (gameWidth * 12) \div 7
headerHeight == (gameHeight * 8) \div 100
launchZoneHeight == gameHeight \div 10
gridHeight == gameHeight - headerHeight - launchZoneHeight
gridOffsetX == 0
gridOffsetY == headerHeight
cellWidth == gameWidth \div GRID_COLS
cellHeight == gridHeight \div GRID_ROWS
ballRadius == BASE_BALL_RADIUS * PX
pickupRadius == PICKUP_RADIUS * PX
launchZoneTop == headerHeight + gridHeight
gap == GRID_GAP * PX
\* Renderer.getLaunchZoneY
LaunchZoneY == headerHeight + gridHeight + launchZoneHeight \div 2
\* the literal 1 (pixel) that checkBrickCollision adds when it pushes a ball out
PUSH_EPS == 1 * PX

(************************* arithmetic helpers ******************************)
Abs(n) == IF n < 0 THEN -n ELSE n
Min(a, b) == IF a < b THEN a ELSE b
Max(a, b) == IF a > b THEN a ELSE b

\* n / d rounded toward zero
DivT(n, d) == IF n >= 0 THEN n \div d ELSE -((-n) \div d)

RECURSIVE SqrtSearch(_, _, _)
SqrtSearch(n, lo, hi) ==
  IF lo >= hi THEN lo
  ELSE LET mid == (lo + hi + 1) \div 2
       IN IF mid * mid <= n THEN SqrtSearch(n, mid, hi)
          ELSE SqrtSearch(n, lo, mid - 1)

\* floor(Math.sqrt(n)) for 0 <= n < 2^31
ISqrt(n) == SqrtSearch(n, 0, 46340)

(************************* Physics.ts **************************************)
\* Physics.updateBall; deltaMs is the clamped frame time in milliseconds
updateBall(ball, deltaMs, mult) ==
  IF ~ball.active THEN ball
  ELSE [ball EXCEPT !.x = @ + DivT(ball.vx * deltaMs * mult, 1000),
                    !.y = @ + DivT(ball.vy * deltaMs * mult, 1000)]

\* a wall response in which the top wall takes half of the vertical speed
checkWallCollision_Damped(ball) ==
  LET r == ballRadius
  IN IF ball.x - r <= 0
       THEN [ball |-> [ball EXCEPT !.x = r, !.vx = Abs(@)],
             collided |-> TRUE, side |-> "left"]
     ELSE IF ball.x + r >= gameWidth
       THEN [ball |-> [ball EXCEPT !.x = gameWidth - r, !.vx = -Abs(@)],
             collided |-> TRUE, side |-> "right"]
     ELSE IF ball.y - r <= 0
       THEN [ball |-> [ball EXCEPT !.y = r, !.vy = Abs(@) \div 2],
             collided |-> TRUE, side |-> "top"]
     ELSE [ball |-> ball, collided |-> FALSE, side |-> Null]

\* Physics.checkWallCollision
checkWallCollision(ball) ==
  LET r == ballRadius
  IN IF ball.x - r <= 0
       THEN [ball |-> [ball EXCEPT !.x = r, !.vx = Abs(@)],
             collided |-> TRUE, side |-> "left"]
     ELSE IF ball.x + r >= gameWidth
       THEN [ball |-> [ball EXCEPT !.x = gameWidth - r, !.vx = -Abs(@)],
             collided |-> TRUE, side |-> "right"]
     ELSE IF ball.y - r <= 0
       THEN [ball |-> [ball EXCEPT !.y = r, !.vy = Abs(@)],
             collided |-> TRUE, side |-> "top"]
     ELSE [ball |-> ball, collided |-> FALSE, side |-> Null]

\* Physics.checkBottomCollision
checkBottomCollision(ball) == ball.y + ballRadius >= launchZoneTop

\* Physics.getBrickBounds
getBrickBounds(brick) ==
  LET x == gridOffsetX + brick.gridX * cellWidth + gap \div 2
      y == gridOffsetY + brick.gridY * cellHeight + gap \div 2
  IN [left |-> x, right |-> x + (cellWidth - gap),
      top |-> y, bottom |-> y + (cellHeight - gap)]

\* the corner branch of checkBrickCollision: the push along the line from the
\* corner through the ball centre to distance r + 1px, rounded to the length unit
CornerPush(cornerX, cornerY, bx, by) ==
  LET ddx == bx - cornerX
      ddy == by - cornerY
      d32 == ISqrt((ddx * ddx + ddy * ddy) * 1024)
  IN [x |-> cornerX + DivT(ddx * (ballRadius + PUSH_EPS) * 32, d32),
      y |-> cornerY + DivT(ddy * (ballRadius + PUSH_EPS) * 32, d32)]

\* checkBrickCollision treating the whole expanded rectangle as faces
checkBrickCollision_NoCorner(ball, b) ==
  LET r == ballRadius
      overlapLeft == ball.x - (b.left - r)
      overlapRight == (b.right + r) - ball.x
      overlapTop == ball.y - (b.top - r)
      overlapBottom == (b.bottom + r) - ball.y
  IN IF overlapLeft < 0 \/ overlapRight < 0 \/ overlapTop < 0 \/ overlapBottom < 0
       THEN [ball |-> ball, collided |-> FALSE, face |-> Null]
     ELSE IF Min(overlapLeft, overlapRight) < Min(overlapTop, overlapBottom)
       THEN IF overlapLeft < overlapRight
              THEN [ball |-> [ball EXCEPT !.vx = -Abs(@),
                                          !.x = b.left - r - PUSH_EPS],
                    collided |-> TRUE, face |-> "left"]
              ELSE [ball |-> [ball EXCEPT !.vx = Abs(@),
                                          !.x = b.right + r + PUSH_EPS],
                    collided |-> TRUE, face |-> "right"]
     ELSE IF overlapTop < overlapBottom
       THEN [ball |-> [ball EXCEPT !.vy = -Abs(@),
                                   !.y = b.top - r - PUSH_EPS],
             collided |-> TRUE, face |-> "top"]
       ELSE [ball |-> [ball EXCEPT !.vy = Abs(@),
                                   !.y = b.bottom + r + PUSH_EPS],
             collided |-> TRUE, face |-> "bottom"]

\* Physics.checkBrickCollision
checkBrickCollision(ball, b) ==
  LET r == ballRadius
      bx == ball.x
      by == ball.y
      expandedLeft == b.left - r
      expandedRight == b.right + r
      expandedTop == b.top - r
      expandedBottom == b.bottom + r
      overlapLeft == bx - expandedLeft
      overlapRight == expandedRight - bx
      overlapTop == by - expandedTop
      overlapBottom == expandedBottom - by
      minOverlapX == Min(overlapLeft, overlapRight)
      minOverlapY == Min(overlapTop, overlapBottom)
      inCornerX == bx < b.left \/ bx > b.right
      inCornerY == by < b.top \/ by > b.bottom
      cornerX == IF bx < b.left THEN b.left ELSE b.right
      cornerY == IF by < b.top THEN b.top ELSE b.bottom
      none == [ball |-> ball, collided |-> FALSE, face |-> Null]
  IN IF bx < expandedLeft \/ bx > expandedRight
        \/ by < expandedTop \/ by > expandedBottom
       THEN none
     ELSE IF inCornerX /\ inCornerY
       THEN IF (bx - cornerX) * (bx - cornerX) + (by - cornerY) * (by - cornerY)
                 <= r * r
              THEN LET p == CornerPush(cornerX, cornerY, bx, by)
                   IN [ball |-> [ball EXCEPT !.vx = -@, !.vy = -@,
                                             !.x = p.x, !.y = p.y],
                       collided |-> TRUE, face |-> "corner"]
              ELSE none
     ELSE IF minOverlapX < minOverlapY
       THEN IF overlapLeft < overlapRight
              THEN [ball |-> [ball EXCEPT !.vx = -Abs(@),
                                          !.x = expandedLeft - PUSH_EPS],
                    collided |-> TRUE, face |-> "left"]
              ELSE [ball |-> [ball EXCEPT !.vx = Abs(@),
                                          !.x = expandedRight + PUSH_EPS],
                    collided |-> TRUE, face |-> "right"]
     ELSE IF overlapTop < overlapBottom
       THEN [ball |-> [ball EXCEPT !.vy = -Abs(@),
                                   !.y = expandedTop - PUSH_EPS],
             collided |-> TRUE, face |-> "top"]
       ELSE [ball |-> [ball EXCEPT !.vy = Abs(@),
                                   !.y = expandedBottom + PUSH_EPS],
             collided |-> TRUE, face |-> "bottom"]

\* Physics.checkPickupCollision: sqrt(dx^2 + dy^2) <= r + pickupRadius
checkPickupCollision(ball, pickupX, pickupY, pr) ==
  LET dx == ball.x - pickupX
      dy == ball.y - pickupY
      reach == ballRadius + pr
  IN /\ Abs(dx) <= reach
     /\ Abs(dy) <= reach
     /\ dx * dx + dy * dy <= reach * reach

(************************* GridManager.ts **********************************)
\* GridManager.createBrick.  The id field (nextBrickId++) is never read by the
\* game; a brick is identified by its place in the bricks list.
createBrick(gridX, gridY, hits) ==
  [gridX |-> gridX, gridY |-> gridY, hits |-> hits,
   destroying |-> FALSE, destroyProgress |-> 0]

\* GridManager.createPickup (id as for bricks)
createPickup(gridX, gridY, type) ==
  [gridX |-> gridX, gridY |-> gridY, type |-> type,
   collected |-> FALSE, collectProgress |-> 0]

\* GridManager.getPickupsForRound
getPickupsForRound(lvl) ==
  LET add(seq, t) == IF lvl % MULTIPLIER_SPAWN_INTERVALS[t] = 0
                       THEN Append(seq, t) ELSE seq
  IN add(add(add(add(<<"ball">>, "x2"), "x3"), "x5"), "x10")

\* BrickHits with a variance of half the base instead of a fifth
BrickHits_HalfVariance(ballCnt, rnd, i) ==
  LET baseHits == Max(1, ballCnt)
      variance == baseHits \div 2
      roll == (rnd.seed + i) % (variance * 2 + 1)
  IN Max(1, baseHits + roll - variance)

\* the hit count of the i-th brick of a row: Math.random() is the roll
\* (rnd.seed + i) mod (2 * variance + 1)
BrickHits(ballCnt, rnd, i) ==
  LET baseHits == Max(1, ballCnt)
      variance == baseHits \div 5
      roll == (rnd.seed + i) % (variance * 2 + 1)
  IN Max(1, baseHits + roll - variance)

\* spawnNewRow placing the pickups in the first shuffled columns, the ones
\* the bricks took
spawnNewRow_PickupsOnBricks(ballCnt, lvl, rnd) ==
  LET brickColumns == SubSeq(rnd.shuffled, 1, rnd.numBricks)
      pickupsToSpawn == getPickupsForRound(lvl)
      numPickups == Min(Len(pickupsToSpawn), GRID_COLS - rnd.numBricks)
  IN [bricks |-> [i \in 1..Len(brickColumns) |->
                    createBrick(brickColumns[i], SPAWN_ROW,
                                BrickHits(ballCnt, rnd, i))],
      pickups |-> [i \in 1..numPickups |->
                     createPickup(rnd.shuffled[i], SPAWN_ROW,
                                  pickupsToSpawn[i])]]

\* GridManager.spawnNewRow(ballCount, _, _, level).  rnd carries the random
\* draws: numBricks, the shuffled columns, the rotation that stands for the
\* second shuffle, and the seed of the hit rolls.
spawnNewRow(ballCnt, lvl, rnd) ==
  LET availableColumns == rnd.shuffled
      brickColumns == SubSeq(availableColumns, 1, rnd.numBricks)
      remainingColumns ==
        LET rest == SubSeq(availableColumns, rnd.numBricks + 1, GRID_COLS)
            n == Len(rest)
        IN [i \in 1..n |-> rest[((i - 1 + rnd.rotate) % n) + 1]]
      pickupsToSpawn == getPickupsForRound(lvl)
      numPickups == Min(Len(pickupsToSpawn), Len(remainingColumns))
  IN [bricks |-> [i \in 1..Len(brickColumns) |->
                    createBrick(brickColumns[i], SPAWN_ROW,
                                BrickHits(ballCnt, rnd, i))],
      pickups |-> [i \in 1..numPickups |->
                     createPickup(remainingColumns[i], SPAWN_ROW,
                                  pickupsToSpawn[i])]]

\* moveBricksDown leaving the newest brick where it is
moveBricksDown_SkipLast(bs) ==
  [i \in 1..Len(bs) |-> IF i < Len(bs) THEN [bs[i] EXCEPT !.gridY = @ + 1]
                                       ELSE bs[i]]

\* GridManager.moveBricksDown
moveBricksDown(bs) == [i \in 1..Len(bs) |-> [bs[i] EXCEPT !.gridY = @ + 1]]

\* a row advance that leaves the pickups where they are
movePickupsDown_Stay(ps) == ps

\* GridManager.movePickupsDown
movePickupsDown(ps) == [i \in 1..Len(ps) |-> [ps[i] EXCEPT !.gridY = @ + 1]]

\* a game-over test that fires one row early
checkGameOver_RowEarly(bs) ==
  \E i \in 1..Len(bs) : bs[i].gridY >= GRID_ROWS - 1

\* GridManager.checkGameOver
checkGameOver(bs) == \E i \in 1..Len(bs) : bs[i].gridY >= GRID_ROWS

\* GridManager.removeBottomPickups
removeBottomPickups(ps) == SelectSeq(ps, LAMBDA p : p.gridY < GRID_ROWS)

(************************* Game.ts: state **********************************)
VARIABLES
  state, previousState, level, ballCount, speedMultiplier, settings,
  highScores, balls, bricks, pickups, collectEffects, launchPosition,
  nextLaunchPosition, aimDirection, isMovingLaunchPoint, ballsLaunched,
  ballsReturned, sinceLaunch, nextBallId,
  storage,      \* localStorage: the two persisted blobs
  saveCalls,    \* localStorage.setItem calls made by the last handler, per key
  stateWrites,  \* the values the last handler assigned to this.state, in order
  tickHits,     \* <<ball id, brick index>> pairs for which the last frame's
                \* checkBrickCollision calls returned collided
  turnEnded,    \* the last step was a frame in which endTurn ran
  call          \* a direct call of a Physics method: its arguments and result

gameVars ==
  <<state, previousState, level, ballCount, speedMultiplier, settings,
    highScores, balls, bricks, pickups, collectEffects, launchPosition,
    nextLaunchPosition, aimDirection, isMovingLaunchPoint, ballsLaunched,
    ballsReturned, sinceLaunch, nextBallId,
    storage, saveCalls, stateWrites, tickHits, turnEnded>>

vars == <<gameVars, call>>

\* the fields of the Game object (and of its GridManager), as one record
Cur ==
  [state |-> state, previousState |-> previousState, level |-> level,
   ballCount |-> ballCount, speedMultiplier |-> speedMultiplier,
   settings |-> settings, highScores |-> highScores, balls |-> balls,
   bricks |-> bricks, pickups |-> pickups, collectEffects |-> collectEffects,
   launchPosition |-> launchPosition,
   nextLaunchPosition |-> nextLaunchPosition, aimDirection |-> aimDirection,
   isMovingLaunchPoint |-> isMovingLaunchPoint,
   ballsLaunched |-> ballsLaunched, ballsReturned |-> ballsReturned,
   sinceLaunch |-> sinceLaunch, nextBallId |-> nextBallId,
   storage |-> storage,
   saveCalls |-> [highScores |-> 0, settings |-> 0], stateWrites |-> <<>>,
   tickHits |-> {}, turnEnded |-> FALSE]

\* the assignment of the fields of the Game object from the record g
Assigns(g) ==
  /\ state' = g.state
  /\ previousState' = g.previousState
  /\ level' = g.level
  /\ ballCount' = g.ballCount
  /\ speedMultiplier' = g.speedMultiplier
  /\ settings' = g.settings
  /\ highScores' = g.highScores
  /\ balls' = g.balls
  /\ bricks' = g.bricks
  /\ pickups' = g.pickups
  /\ collectEffects' = g.collectEffects
  /\ launchPosition' = g.launchPosition
  /\ nextLaunchPosition' = g.nextLaunchPosition
  /\ aimDirection' = g.aimDirection
  /\ isMovingLaunchPoint' = g.isMovingLaunchPoint
  /\ ballsLaunched' = g.ballsLaunched
  /\ ballsReturned' = g.ballsReturned
  /\ sinceLaunch' = g.sinceLaunch
  /\ nextBallId' = g.nextBallId
  /\ storage' = g.storage
  /\ saveCalls' = g.saveCalls
  /\ stateWrites' = g.stateWrites
  /\ tickHits' = g.tickHits
  /\ turnEnded' = g.turnEnded

\* the step that leaves the Game object as the record g
Becomes(g) == Assigns(g) /\ call' = call

\* the assignment this.state = s
SetState(g, s) == [g EXCEPT !.state = s, !.stateWrites = Append(@, s)]

(************************* Game.ts: persistence ****************************)
DefaultSettings == [easyMode |-> FALSE]
DefaultHighScores == [normal |-> 0, easy |-> 0]

\* a localStorage entry: absent, text that JSON.parse rejects, or a stored value
Missing == [kind |-> "missing"]
Corrupt == [kind |-> "corrupt"]
Json(v) == [kind |-> "json", value |-> v]

\* Game.loadSettings: one try block around both reads; a blob that does not
\* parse throws and ends the block
loadSettings(store) ==
  LET settingsThrows == store.settings.kind = "corrupt"
  IN [settings |-> IF store.settings.kind = "json"
                     THEN store.settings.value ELSE DefaultSettings,
      highScores |-> IF ~settingsThrows /\ store.highScores.kind = "json"
                       THEN store.highScores.value ELSE DefaultHighScores]

\* Game.saveSettings; writeOk = FALSE is localStorage.setItem throwing
saveSettings(g, writeOk) ==
  [g EXCEPT !.storage.settings = IF writeOk THEN Json(g.settings) ELSE @,
            !.saveCalls.settings = @ + 1]

\* Game.saveHighScores
saveHighScores(g, writeOk) ==
  [g EXCEPT !.storage.highScores = IF writeOk THEN Json(g.highScores) ELSE @,
            !.saveCalls.highScores = @ + 1]

(************************* Renderer button bounds **************************)
centerX == gameWidth \div 2
centerY == gameHeight \div 2

Button(x, y, w, h) == [x |-> x, y |-> y, width |-> w, height |-> h]

\* Renderer.getSpeedButtonBounds
SpeedButtonBounds ==
  Button(gameWidth - 40 * PX - 10 * PX,
         gameHeight - launchZoneHeight \div 2 - (40 * PX) \div 2,
         40 * PX, 40 * PX)

\* Renderer.getMenuButtonBounds
MenuButtonBounds ==
  [play |-> Button(centerX, centerY + 20 * PX, 120 * PX, 44 * PX),
   settings |-> Button(centerX, centerY + 80 * PX, 100 * PX, 36 * PX)]

\* Renderer.getPauseButtonBounds
PauseButtonBounds ==
  [resume |-> Button(centerX, centerY - 20 * PX, 100 * PX, 40 * PX),
   restart |-> Button(centerX, centerY + 30 * PX, 100 * PX, 40 * PX),
   settings |-> Button(centerX, centerY + 80 * PX, 100 * PX, 40 * PX)]

\* Renderer.getSettingsButtonBounds
SettingsButtonBounds ==
  [toggle |-> Button(centerX + 35 * PX, centerY - 20 * PX, 50 * PX, 26 * PX),
   back |-> Button(centerX, centerY + 80 * PX, 100 * PX, 40 * PX)]

\* Renderer.getGameOverButtonBounds
GameOverButtonBounds ==
  [playAgain |-> Button(centerX, centerY + 50 * PX, 120 * PX, 44 * PX)]

\* Game.isPointInBounds
isPointInBounds(point, bounds) ==
  /\ point.x >= bounds.x - bounds.width \div 2
  /\ point.x <= bounds.x + bounds.width \div 2
  /\ point.y >= bounds.y - bounds.height \div 2
  /\ point.y <= bounds.y + bounds.height \div 2

(************************* Game.ts: game control ****************************)
\* cos and sin of 90 - MIN_LAUNCH_ANGLE degrees, in thousandths
COS_CLAMP == 174
SIN_CLAMP == 985

\* Game.cycleSpeed
cycleSpeed(g) ==
  [g EXCEPT !.speedMultiplier =
     CASE @ = 1 -> 2 [] @ = 2 -> 4 [] @ = 4 -> 1 [] OTHER -> @]

\* Game.spawnNewRow: the level is passed as GridManager's ballCount parameter
\* and GridManager's level parameter keeps its default, 1
GameSpawnNewRow(g, rnd) ==
  LET row == spawnNewRow(g.level, 1, rnd)
  IN [g EXCEPT !.bricks = @ \o row.bricks,
               !.pickups = @ \o row.pickups]

\* a start that keeps the speed multiplier of the game before
startGame_KeepSpeed(g, rnd) ==
  LET fresh == [g EXCEPT !.level = 1, !.ballCount = 1, !.balls = <<>>,
                         !.bricks = <<>>, !.pickups = <<>>,
                         !.collectEffects = <<>>,
                         !.nextBallId = 0,
                         !.launchPosition =
                            [x |-> gameWidth \div 2, y |-> launchZoneTop],
                         !.nextLaunchPosition = None,
                         !.aimDirection = None]
  IN SetState(GameSpawnNewRow(fresh, rnd), "aiming")

\* startGame without its reset of the brick list
startGame_KeepBricks(g, rnd) ==
  LET fresh == [g EXCEPT !.level = 1, !.ballCount = 1, !.balls = <<>>,
                         !.pickups = <<>>,
                         !.collectEffects = <<>>, !.speedMultiplier = 1,
                         !.nextBallId = 0,
                         !.launchPosition =
                            [x |-> gameWidth \div 2, y |-> launchZoneTop],
                         !.nextLaunchPosition = None,
                         !.aimDirection = None]
  IN SetState(GameSpawnNewRow(fresh, rnd), "aiming")

\* Game.startGame
startGame(g, rnd) ==
  LET fresh == [g EXCEPT !.level = 1, !.ballCount = 1, !.balls = <<>>,
                         !.bricks = <<>>, !.pickups = <<>>,
                         !.collectEffects = <<>>, !.speedMultiplier = 1,
                         !.nextBallId = 0,
                         !.launchPosition =
                            [x |-> gameWidth \div 2, y |-> launchZoneTop],
                         !.nextLaunchPosition = None,
                         !.aimDirection = None]
  IN SetState(GameSpawnNewRow(fresh, rnd), "aiming")

\* the ball loop of launchBalls creating one ball whatever ballCount is
CreateBalls_OneBall(g) ==
  << [id |-> g.nextBallId,
      x |-> g.launchPosition.x, y |-> LaunchZoneY,
      vx |-> DivT(g.aimDirection[1].x * BALL_SPEED * PX, 1000),
      vy |-> DivT(g.aimDirection[1].y * BALL_SPEED * PX, 1000),
      active |-> FALSE] >>

\* the loop of Game.launchBalls that creates the balls
CreateBalls(g) ==
  LET speed == BALL_SPEED * PX
  IN [i \in 1..g.ballCount |->
        [id |-> g.nextBallId + i - 1,
         x |-> g.launchPosition.x, y |-> LaunchZoneY,
         vx |-> DivT(g.aimDirection[1].x * speed, 1000),
         vy |-> DivT(g.aimDirection[1].y * speed, 1000),
         active |-> FALSE]]

\* launchBalls with the assignment of 'launching' left out
launchBalls_NoLaunching(g) ==
  IF g.aimDirection = None THEN g
  ELSE SetState([g EXCEPT !.ballsLaunched = 0, !.ballsReturned = 0,
                          !.nextLaunchPosition = None,
                          !.sinceLaunch = BALL_LAUNCH_DELAY,
                          !.balls = @ \o CreateBalls(g),
                          !.nextBallId = @ + g.ballCount],
                "animating")

\* Game.launchBalls; lastLaunchTime = 0 leaves the clock more than
\* BALL_LAUNCH_DELAY past the last launch
launchBalls(g) ==
  IF g.aimDirection = None THEN g
  ELSE LET launching == SetState(g, "launching")
       IN SetState([launching EXCEPT !.ballsLaunched = 0, !.ballsReturned = 0,
                                     !.nextLaunchPosition = None,
                                     !.sinceLaunch = BALL_LAUNCH_DELAY,
                                     !.balls = @ \o CreateBalls(g),
                                     !.nextBallId = @ + g.ballCount],
                   "animating")

\* handleGameOver saving a level that only equals the high score
handleGameOver_SaveEqual(g, writeOk) ==
  LET scoreKey == IF g.settings.easyMode THEN "easy" ELSE "normal"
      isHighScore == g.level >= g.highScores[scoreKey]
      scored == IF isHighScore
                  THEN saveHighScores(
                         [g EXCEPT !.highScores[scoreKey] = g.level], writeOk)
                  ELSE g
  IN SetState(scored, "gameOver")

\* handleGameOver writing a new high score into both slots
handleGameOver_BothSlots(g, writeOk) ==
  LET scoreKey == IF g.settings.easyMode THEN "easy" ELSE "normal"
      isHighScore == g.level > g.highScores[scoreKey]
      scored == IF isHighScore
                  THEN saveHighScores(
                         [g EXCEPT !.highScores =
                                     [normal |-> g.level, easy |-> g.level]],
                         writeOk)
                  ELSE g
  IN SetState(scored, "gameOver")

\* handleGameOver with a failing write escaping saveHighScores: the
\* assignment of 'gameOver' after it is not reached
handleGameOver_Throws(g, writeOk) ==
  LET scoreKey == IF g.settings.easyMode THEN "easy" ELSE "normal"
      isHighScore == g.level > g.highScores[scoreKey]
      scored == IF isHighScore
                  THEN saveHighScores(
                         [g EXCEPT !.highScores[scoreKey] = g.level], writeOk)
                  ELSE g
  IN IF isHighScore /\ ~writeOk THEN scored ELSE SetState(scored, "gameOver")

\* Game.handleGameOver
handleGameOver(g, writeOk) ==
  LET scoreKey == IF g.settings.easyMode THEN "easy" ELSE "normal"
      isHighScore == g.level > g.highScores[scoreKey]
      scored == IF isHighScore
                  THEN saveHighScores(
                         [g EXCEPT !.highScores[scoreKey] = g.level], writeOk)
                  ELSE g
  IN SetState(scored, "gameOver")

\* endTurn without its reset of the speed multiplier
endTurn_KeepSpeed(g, rnd, writeOk) ==
  LET kept == SelectSeq(g.bricks,
                        LAMBDA b : ~b.destroying
                                   \/ b.destroyProgress < DESTROY_ANIMATION_DURATION)
      keptP == SelectSeq(g.pickups,
                         LAMBDA p : ~p.collected
                                    \/ p.collectProgress < COLLECT_ANIMATION_DURATION)
      moved == [g EXCEPT !.balls = <<>>,
                         !.launchPosition =
                            IF g.nextLaunchPosition # None
                              THEN g.nextLaunchPosition[1] ELSE @,
                         !.bricks = moveBricksDown(kept),
                         !.pickups = removeBottomPickups(movePickupsDown(keptP)),
                         !.turnEnded = TRUE]
  IN IF checkGameOver(moved.bricks)
       THEN handleGameOver(moved, writeOk)
       ELSE SetState([GameSpawnNewRow([moved EXCEPT !.level = @ + 1], rnd)
                        EXCEPT !.aimDirection = None],
                     "aiming")

\* a turn resolution that counts the turn and spawns the row before it checks
\* for game over
endTurn_LevelFirst(g, rnd, writeOk) ==
  LET kept == SelectSeq(g.bricks,
                        LAMBDA b : ~b.destroying
                                   \/ b.destroyProgress < DESTROY_ANIMATION_DURATION)
      keptP == SelectSeq(g.pickups,
                         LAMBDA p : ~p.collected
                                    \/ p.collectProgress < COLLECT_ANIMATION_DURATION)
      moved == [g EXCEPT !.balls = <<>>,
                         !.launchPosition =
                            IF g.nextLaunchPosition # None
                              THEN g.nextLaunchPosition[1] ELSE @,
                         !.bricks = moveBricksDown(kept),
                         !.pickups = removeBottomPickups(movePickupsDown(keptP)),
                         !.turnEnded = TRUE]
      next == GameSpawnNewRow([moved EXCEPT !.level = @ + 1], rnd)
  IN IF checkGameOver(moved.bricks)
       THEN handleGameOver(next, writeOk)
       ELSE SetState([next EXCEPT !.aimDirection = None, !.speedMultiplier = 1],
                     "aiming")

\* Game.endTurn
endTurn(g, rnd, writeOk) ==
  LET kept == SelectSeq(g.bricks,
                        LAMBDA b : ~b.destroying
                                   \/ b.destroyProgress < DESTROY_ANIMATION_DURATION)
      keptP == SelectSeq(g.pickups,
                         LAMBDA p : ~p.collected
                                    \/ p.collectProgress < COLLECT_ANIMATION_DURATION)
      moved == [g EXCEPT !.balls = <<>>,
                         !.launchPosition =
                            IF g.nextLaunchPosition # None
                              THEN g.nextLaunchPosition[1] ELSE @,
                         !.bricks = moveBricksDown(kept),
                         !.pickups = removeBottomPickups(movePickupsDown(keptP)),
                         !.turnEnded = TRUE]
  IN IF checkGameOver(moved.bricks)
       THEN handleGameOver(moved, writeOk)
       ELSE SetState([GameSpawnNewRow([moved EXCEPT !.level = @ + 1], rnd)
                        EXCEPT !.aimDirection = None, !.speedMultiplier = 1],
                     "aiming")

(************************* Game.ts: the frame *******************************)
\* the brick loop without its skip of bricks that are already destroying
RECURSIVE CollideBricks_HitDestroying(_, _, _, _)
CollideBricks_HitDestroying(ball, bs, j, hits) ==
  IF j > Len(bs) THEN [ball |-> ball, bricks |-> bs, hits |-> hits]
  ELSE LET collision == checkBrickCollision(ball, getBrickBounds(bs[j]))
       IN IF collision.collided
            THEN LET h == bs[j].hits - 1
                     hit == IF h <= 0
                              THEN [bs[j] EXCEPT !.hits = h, !.destroying = TRUE,
                                                 !.destroyProgress = 0]
                              ELSE [bs[j] EXCEPT !.hits = h]
                 IN CollideBricks_HitDestroying(collision.ball,
                      [bs EXCEPT ![j] = hit], j + 1, hits \cup {<<ball.id, j>>})
            ELSE CollideBricks_HitDestroying(ball, bs, j + 1, hits)

\* the brick loop of Game.updateAnimating for one ball, from brick j on
RECURSIVE CollideBricks(_, _, _, _)
CollideBricks(ball, bs, j, hits) ==
  IF j > Len(bs) THEN [ball |-> ball, bricks |-> bs, hits |-> hits]
  ELSE IF bs[j].destroying THEN CollideBricks(ball, bs, j + 1, hits)
  ELSE LET collision == checkBrickCollision(ball, getBrickBounds(bs[j]))
       IN IF collision.collided
            THEN LET h == bs[j].hits - 1
                     hit == IF h <= 0
                              THEN [bs[j] EXCEPT !.hits = h, !.destroying = TRUE,
                                                 !.destroyProgress = 0]
                              ELSE [bs[j] EXCEPT !.hits = h]
                 IN CollideBricks(collision.ball, [bs EXCEPT ![j] = hit], j + 1,
                                  hits \cup {<<ball.id, j>>})
            ELSE CollideBricks(ball, bs, j + 1, hits)

\* the pickup loop without its skip of pickups that are already collected
RECURSIVE CollectPickups_Again(_, _, _)
CollectPickups_Again(ball, g, j) ==
  IF j > Len(g.pickups) THEN g
  ELSE LET pickup == g.pickups[j]
           pickupX == pickup.gridX * cellWidth + cellWidth \div 2
           pickupY == gridOffsetY + pickup.gridY * cellHeight + cellHeight \div 2
       IN IF checkPickupCollision(ball, pickupX, pickupY, pickupRadius)
            THEN CollectPickups_Again(ball,
                   [g EXCEPT !.pickups[j].collected = TRUE,
                             !.pickups[j].collectProgress = 0,
                             !.ballCount = @ + PICKUP_VALUES[pickup.type],
                             !.collectEffects =
                                Append(@, [x |-> pickupX, y |-> pickupY,
                                           value |-> PICKUP_VALUES[pickup.type],
                                           progress |-> 0])],
                   j + 1)
            ELSE CollectPickups_Again(ball, g, j + 1)

\* the pickup loop of Game.updateAnimating for one ball, from pickup j on
RECURSIVE CollectPickups(_, _, _)
CollectPickups(ball, g, j) ==
  IF j > Len(g.pickups) THEN g
  ELSE LET pickup == g.pickups[j]
           pickupX == pickup.gridX * cellWidth + cellWidth \div 2
           pickupY == gridOffsetY + pickup.gridY * cellHeight + cellHeight \div 2
       IN IF ~pickup.collected
             /\ checkPickupCollision(ball, pickupX, pickupY, pickupRadius)
            THEN CollectPickups(ball,
                   [g EXCEPT !.pickups[j].collected = TRUE,
                             !.pickups[j].collectProgress = 0,
                             !.ballCount = @ + PICKUP_VALUES[pickup.type],
                             !.collectEffects =
                                Append(@, [x |-> pickupX, y |-> pickupY,
                                           value |-> PICKUP_VALUES[pickup.type],
                                           progress |-> 0])],
                   j + 1)
            ELSE CollectPickups(ball, g, j + 1)

\* the ball loop body with every returning ball setting the next launch position
StepBall_LastReturn(g, i, deltaMs) ==
  IF ~g.balls[i].active THEN g
  ELSE LET moved == updateBall(g.balls[i], deltaMs, g.speedMultiplier)
           walled == checkWallCollision(moved).ball
           bricked == CollideBricks(walled, g.bricks, 1, g.tickHits)
           ball == bricked.ball
           picked == CollectPickups(ball,
                       [g EXCEPT !.bricks = bricked.bricks,
                                 !.tickHits = bricked.hits], 1)
       IN IF checkBottomCollision(ball)
            THEN [picked EXCEPT
                    !.balls[i] = [ball EXCEPT !.active = FALSE],
                    !.ballsReturned = @ + 1,
                    !.nextLaunchPosition =
                       Some([x |-> Max(ballRadius,
                                       Min(gameWidth - ballRadius, ball.x)),
                             y |-> launchZoneTop])]
            ELSE [picked EXCEPT !.balls[i] = ball]

\* the ball loop body counting a ball at the bottom without deactivating it
StepBall_StaysActive(g, i, deltaMs) ==
  IF ~g.balls[i].active THEN g
  ELSE LET moved == updateBall(g.balls[i], deltaMs, g.speedMultiplier)
           walled == checkWallCollision(moved).ball
           bricked == CollideBricks(walled, g.bricks, 1, g.tickHits)
           ball == bricked.ball
           picked == CollectPickups(ball,
                       [g EXCEPT !.bricks = bricked.bricks,
                                 !.tickHits = bricked.hits], 1)
       IN IF checkBottomCollision(ball)
            THEN [picked EXCEPT
                    !.balls[i] = ball,
                    !.ballsReturned = @ + 1,
                    !.nextLaunchPosition =
                       IF @ = None
                         THEN Some([x |-> Max(ballRadius,
                                              Min(gameWidth - ballRadius, ball.x)),
                                    y |-> launchZoneTop])
                         ELSE @]
            ELSE [picked EXCEPT !.balls[i] = ball]

\* the body of the ball loop of Game.updateAnimating for ball i
StepBall(g, i, deltaMs) ==
  IF ~g.balls[i].active THEN g
  ELSE LET moved == updateBall(g.balls[i], deltaMs, g.speedMultiplier)
           walled == checkWallCollision(moved).ball
           bricked == CollideBricks(walled, g.bricks, 1, g.tickHits)
           ball == bricked.ball
           picked == CollectPickups(ball,
                       [g EXCEPT !.bricks = bricked.bricks,
                                 !.tickHits = bricked.hits], 1)
       IN IF checkBottomCollision(ball)
            THEN [picked EXCEPT
                    !.balls[i] = [ball EXCEPT !.active = FALSE],
                    !.ballsReturned = @ + 1,
                    !.nextLaunchPosition =
                       IF @ = None
                         THEN Some([x |-> Max(ballRadius,
                                              Min(gameWidth - ballRadius, ball.x)),
                                    y |-> launchZoneTop])
                         ELSE @]
            ELSE [picked EXCEPT !.balls[i] = ball]

RECURSIVE StepBalls(_, _, _)
StepBalls(g, i, deltaMs) ==
  IF i > Len(g.balls) THEN g
  ELSE StepBalls(StepBall(g, i, deltaMs), i + 1, deltaMs)

\* the ball loop with a queued ball activated in every tick
MoveBalls_NoDelay(g, deltaMs) ==
  LET launches == g.ballsLaunched < Len(g.balls)
      launched == IF launches
                    THEN [g EXCEPT !.balls[g.ballsLaunched + 1].active = TRUE,
                                   !.ballsLaunched = @ + 1,
                                   !.sinceLaunch = 0]
                    ELSE g
  IN StepBalls(launched, 1, deltaMs)

\* Game.updateAnimating up to the end of the ball loop.  g.sinceLaunch is
\* performance.now() - lastLaunchTime, saturated at BALL_LAUNCH_DELAY.
MoveBalls(g, deltaMs) ==
  LET launches == /\ g.ballsLaunched < Len(g.balls)
                  /\ g.sinceLaunch * g.speedMultiplier >= BALL_LAUNCH_DELAY
      launched == IF launches
                    THEN [g EXCEPT !.balls[g.ballsLaunched + 1].active = TRUE,
                                   !.ballsLaunched = @ + 1,
                                   !.sinceLaunch = 0]
                    ELSE g
  IN StepBalls(launched, 1, deltaMs)

\* the turn ending as soon as every ball activated so far is back
AllBallsReturned_Activated(g) ==
  g.ballsReturned >= g.ballsLaunched /\ g.ballsLaunched > 0

\* the test that ends Game.updateAnimating
AllBallsReturned(g) == g.ballsReturned >= Len(g.balls) /\ Len(g.balls) > 0

\* Game.updateAnimating
updateAnimating(g, deltaMs, rnd, writeOk) ==
  LET moved == MoveBalls(g, deltaMs)
  IN IF AllBallsReturned(moved) THEN endTurn(moved, rnd, writeOk) ELSE moved

\* progress + deltaTime / (duration / 1000), kept as elapsed milliseconds and
\* saturated at the duration (progress >= 1)
Progress(elapsed, deltaMs, duration) == Min(elapsed + deltaMs, duration)

\* Game.updateCollectEffects
updateCollectEffects(g, deltaMs) ==
  LET aged == [i \in 1..Len(g.collectEffects) |->
                 [g.collectEffects[i] EXCEPT
                    !.progress = Progress(@, deltaMs, COLLECT_ANIMATION_DURATION)]]
  IN [g EXCEPT !.collectEffects =
        SelectSeq(aged, LAMBDA e : e.progress < COLLECT_ANIMATION_DURATION)]

\* Game.updateDestroyingBricks
updateDestroyingBricks(g, deltaMs) ==
  [g EXCEPT !.bricks =
     [i \in 1..Len(g.bricks) |->
        IF g.bricks[i].destroying
          THEN [g.bricks[i] EXCEPT
                  !.destroyProgress = Progress(@, deltaMs, DESTROY_ANIMATION_DURATION)]
          ELSE g.bricks[i]]]

\* Game.updateCollectedPickups
updateCollectedPickups(g, deltaMs) ==
  [g EXCEPT !.pickups =
     [i \in 1..Len(g.pickups) |->
        IF g.pickups[i].collected
          THEN [g.pickups[i] EXCEPT
                  !.collectProgress = Progress(@, deltaMs, COLLECT_ANIMATION_DURATION)]
          ELSE g.pickups[i]]]

\* an update that advances the turn whatever the state
update_Always(g, deltaMs, rnd, writeOk) ==
  LET animated == IF g.state \in {"animating", "paused", "settings"}
                    THEN updateAnimating(g, deltaMs, rnd, writeOk) ELSE g
  IN updateCollectedPickups(
       updateDestroyingBricks(updateCollectEffects(animated, deltaMs), deltaMs),
       deltaMs)

\* Game.update
update(g, deltaMs, rnd, writeOk) ==
  LET animated == IF g.state = "animating"
                    THEN updateAnimating(g, deltaMs, rnd, writeOk) ELSE g
  IN updateCollectedPickups(
       updateDestroyingBricks(updateCollectEffects(animated, deltaMs), deltaMs),
       deltaMs)

\* Game.gameLoop: frameMs is the time since the previous frame
gameLoop(g, frameMs, rnd, writeOk) ==
  LET deltaMs == Min(frameMs, MAX_DELTA_MS)
      now == [g EXCEPT !.sinceLaunch = Min(@ + frameMs, BALL_LAUNCH_DELAY)]
  IN update(now, deltaMs, rnd, writeOk)

(************************* Game.ts: input handlers **************************)
\* Game.handleMenuInput
handleMenuInput(g, e, rnd) ==
  IF e.type # "tap" /\ e.type # "aimEnd" THEN g
  ELSE IF isPointInBounds(e.position, MenuButtonBounds.play)
    THEN startGame(g, rnd)
  ELSE IF isPointInBounds(e.position, MenuButtonBounds.settings)
    THEN SetState([g EXCEPT !.previousState = "menu"], "settings")
  ELSE g

\* the aim direction of Game.handleAimingInput for dx, dy with dy > 0, in
\* thousandths: (cos a, -|sin a|) for a = atan2(-dy, dx) clamped to
\* [-(90 - MIN_LAUNCH_ANGLE), 90 - MIN_LAUNCH_ANGLE] degrees.  With dy > 0 the
\* angle is negative, so only the lower clamp can apply, and a < -80 degrees
\* exactly when cos a < cos 80.
AimDirection(dx, dy) ==
  LET sx == DivT(dx, 10)
      sy == DivT(dy, 10)
      hyp == ISqrt(sx * sx + sy * sy)
      cosA == DivT(1000 * sx, hyp)
      sinA == DivT(1000 * sy, hyp)
  IN IF cosA < COS_CLAMP
       THEN [x |-> COS_CLAMP, y |-> -SIN_CLAMP]
       ELSE [x |-> cosA, y |-> -sinA]

\* Game.handleAimingInput
handleAimingInput(g, e) ==
  LET launchY == LaunchZoneY
      ddx == e.position.x - g.launchPosition.x
      ddy == e.position.y - launchY
      grabs == /\ e.type = "aimStart"
               /\ g.settings.easyMode
               /\ Abs(ddx) < 30 * PX /\ Abs(ddy) < 30 * PX
               /\ ddx * ddx + ddy * ddy < (30 * PX) * (30 * PX)
      started == IF e.type = "aimStart"
                   THEN [g EXCEPT !.isMovingLaunchPoint = FALSE] ELSE g
      dx == g.launchPosition.x - e.position.x
      dy == launchY - e.position.y
      moved ==
        IF e.type # "aimMove" THEN started
        ELSE IF started.isMovingLaunchPoint /\ started.settings.easyMode
          THEN [started EXCEPT !.launchPosition.x =
                  Max(ballRadius, Min(gameWidth - ballRadius, e.position.x))]
        ELSE IF dy > 10 * PX
          THEN [started EXCEPT !.aimDirection = Some(AimDirection(dx, dy))]
        ELSE started
      ended ==
        IF e.type = "aimEnd" /\ moved.aimDirection # None
           /\ ~moved.isMovingLaunchPoint
          THEN launchBalls(moved) ELSE moved
      tapped ==
        IF e.type = "tap" /\ e.position.x = -1 * PX /\ e.position.y = -1 * PX
          THEN SetState([ended EXCEPT !.previousState = "aiming"], "paused")
          ELSE ended
  IN IF grabs THEN [g EXCEPT !.isMovingLaunchPoint = TRUE]
     ELSE [tapped EXCEPT !.isMovingLaunchPoint = FALSE]

\* Game.handleAnimatingInput
handleAnimatingInput(g, e) ==
  IF e.type # "tap" THEN g
  ELSE IF isPointInBounds(e.position, SpeedButtonBounds) THEN cycleSpeed(g)
  ELSE IF e.position.x = -1 * PX /\ e.position.y = -1 * PX
    THEN SetState([g EXCEPT !.previousState = "animating"], "paused")
  ELSE g

\* Game.handlePausedInput
handlePausedInput(g, e, rnd) ==
  IF e.type # "tap" /\ e.type # "aimEnd" THEN g
  ELSE IF isPointInBounds(e.position, PauseButtonBounds.resume)
    THEN SetState(g, g.previousState)
  ELSE IF isPointInBounds(e.position, PauseButtonBounds.restart)
    THEN startGame(g, rnd)
  ELSE IF isPointInBounds(e.position, PauseButtonBounds.settings)
    THEN SetState([g EXCEPT !.previousState = "paused"], "settings")
  ELSE g

\* Game.handleSettingsInput
handleSettingsInput(g, e, writeOk) ==
  IF e.type # "tap" /\ e.type # "aimEnd" THEN g
  ELSE IF isPointInBounds(e.position, SettingsButtonBounds.toggle)
    THEN saveSettings([g EXCEPT !.settings.easyMode = ~@], writeOk)
  ELSE IF isPointInBounds(e.position, SettingsButtonBounds.back)
    THEN SetState(g, g.previousState)
  ELSE g

\* Game.handleGameOverInput
handleGameOverInput(g, e, rnd) ==
  IF e.type # "tap" /\ e.type # "aimEnd" THEN g
  ELSE IF isPointInBounds(e.position, GameOverButtonBounds.playAgain)
    THEN startGame(g, rnd)
  ELSE g

(************************* inputs *******************************************)
\* pointer positions: the centres of the overlay buttons, and a point low on
\* the left edge of the launch zone
PlayPoint == [x |-> centerX, y |-> centerY + 30 * PX]
SettingsPoint == [x |-> centerX, y |-> centerY + 80 * PX]
TogglePoint == [x |-> centerX + 35 * PX, y |-> centerY - 20 * PX]
LowPoint == [x |-> 0, y |-> LaunchZoneY - 100 * PX]
\* InputHandler: Escape is a tap at (-1, -1), Space a tap at
\* (width - 30, height - 30)
EscapePoint == [x |-> -1 * PX, y |-> -1 * PX]
SpacePoint == [x |-> gameWidth - 30 * PX, y |-> gameHeight - 30 * PX]

\* InputHandler: a press and release in one place is aimStart then tap; a drag
\* is aimStart, aimMove ... and aimEnd
Taps(points) == [type : {"tap"}, position : points]
Drags(points) == [type : {"aimStart", "aimMove", "aimEnd"}, position : points]

\* the values Math.random() gives one GridManager.spawnNewRow call: the number
\* of bricks, the shuffled columns, the rotation of the pickup list and the
\* rolls of the hit variance
SpawnInputs ==
  { [numBricks |-> 3, shuffled |-> <<7, 3, 9, 6, 0, 1, 2, 4, 5, 8, 10>>,
     rotate |-> 0, seed |-> 0] }

\* what localStorage holds when the page loads
StoredScore == 3
InitialStores ==
  { [settings |-> Missing, highScores |-> Missing],
    [settings |-> Json([easyMode |-> TRUE]),
     highScores |-> Json([normal |-> StoredScore, easy |-> 0])] }

(************************* the state machine ********************************)
\* the Game constructor: loadSettings, resize, state = 'menu'
Constructed(store) ==
    LET loaded == loadSettings(store)
    IN /\ state = "menu"
       /\ previousState = "menu"
       /\ level = 1
       /\ ballCount = 1
       /\ speedMultiplier = 1
       /\ settings = loaded.settings
       /\ highScores = loaded.highScores
       /\ balls = <<>>
       /\ bricks = <<>>
       /\ pickups = <<>>
       /\ collectEffects = <<>>
       /\ launchPosition = [x |-> gameWidth \div 2, y |-> launchZoneTop]
       /\ nextLaunchPosition = None
       /\ aimDirection = None
       /\ isMovingLaunchPoint = FALSE
       /\ ballsLaunched = 0
       /\ ballsReturned = 0
       /\ sinceLaunch = BALL_LAUNCH_DELAY
       /\ nextBallId = 0
       /\ storage = store
       /\ saveCalls = [highScores |-> 0, settings |-> 0]
       /\ stateWrites = <<>>
       /\ tickHits = {}
       /\ turnEnded = FALSE

Init ==
  /\ \E store \in InitialStores : Constructed(store)
  /\ call = None

\* Game.handleInput, one action per case of its switch
MenuInput(events) ==
  /\ state = "menu"
  /\ \E e \in events, rnd \in SpawnInputs : Becomes(handleMenuInput(Cur, e, rnd))

AimingInput(events) ==
  /\ state = "aiming"
  /\ \E e \in events : Becomes(handleAimingInput(Cur, e))

AnimatingInput(events) ==
  /\ state = "animating"
  /\ \E e \in events : Becomes(handleAnimatingInput(Cur, e))

PausedInput(events) ==
  /\ state = "paused"
  /\ \E e \in events, rnd \in SpawnInputs :
       Becomes(handlePausedInput(Cur, e, rnd))

SettingsInput(events, writes) ==
  /\ state = "settings"
  /\ \E e \in events, writeOk \in writes :
       Becomes(handleSettingsInput(Cur, e, writeOk))

GameOverInput(events) ==
  /\ state = "gameOver"
  /\ \E e \in events, rnd \in SpawnInputs :
       Becomes(handleGameOverInput(Cur, e, rnd))

\* one requestAnimationFrame callback of Game.gameLoop
Frame(frameTimes, maxLevel, writes) ==
  \E frameMs \in frameTimes, rnd \in SpawnInputs, writeOk \in writes :
    LET g == gameLoop(Cur, frameMs, rnd, writeOk)
    IN /\ g.level <= maxLevel
       /\ Becomes(g)

\* a whole game at a steady frame rate, aimed by one drag and played with
\* the overlay buttons and the Escape key
MaxLevel == 12
SteadyFrames == {100}
SteadyWrites == {TRUE}
SteadyEvents ==
  Taps({PlayPoint, SettingsPoint, TogglePoint, EscapePoint})
    \cup Drags({PlayPoint})

Next ==
  \/ MenuInput(SteadyEvents)
  \/ AimingInput(SteadyEvents)
  \/ AnimatingInput(SteadyEvents)
  \/ PausedInput(SteadyEvents)
  \/ SettingsInput(SteadyEvents, SteadyWrites)
  \/ GameOverInput(SteadyEvents)
  \/ Frame(SteadyFrames, MaxLevel, SteadyWrites)

Spec == Init /\ [][Next]_vars

\* the first turns of a game with a steep and a shallow aim
MaxFlightLevel == 4
FlightFrames == {100}
FlightEvents ==
  Taps({PlayPoint}) \cup Drags({PlayPoint, LowPoint})

NextFlight ==
  \/ MenuInput(FlightEvents)
  \/ AimingInput(FlightEvents)
  \/ AnimatingInput(FlightEvents)
  \/ Frame(FlightFrames, MaxFlightLevel, SteadyWrites)

SpecFlight == Init /\ [][NextFlight]_vars

(************************* Physics called directly *************************)
\* a ball with the velocity of a launch along (3/5, -4/5), whichever way its
\* bounces have turned it
ProbeBalls(xs, ys) ==
  { [id |-> 0, x |-> x, y |-> y, vx |-> vx, vy |-> vy, active |-> TRUE] :
      x \in xs, y \in ys,
      vx \in {-(BALL_SPEED * PX * 3) \div 5, (BALL_SPEED * PX * 3) \div 5},
      vy \in {-(BALL_SPEED * PX * 4) \div 5, (BALL_SPEED * PX * 4) \div 5} }

\* positions around the walls.  Game.updateAnimating checks the walls first
\* in every tick, so a ball found beyond a wall has moved there in this tick.
WallXs ==
  {-ballRadius, 0, ballRadius - 1, ballRadius, ballRadius + 1, centerX,
   gameWidth - ballRadius - 1, gameWidth - ballRadius,
   gameWidth - ballRadius + 1, gameWidth + ballRadius}
WallYs == {-ballRadius, 0, ballRadius - 1, ballRadius, ballRadius + 1, centerY}
WallBalls ==
  { b \in ProbeBalls(WallXs, WallYs) :
      /\ b.x <= ballRadius => b.vx < 0
      /\ b.x >= gameWidth - ballRadius => b.vx > 0
      /\ b.y <= ballRadius => b.vy < 0 }

\* positions around the corners and faces of one brick: on an edge line, just
\* outside, either side of the corner circle and of the expanded rectangle,
\* and well inside
ProbeBrick == getBrickBounds(createBrick(5, SPAWN_ROW, 1))
EdgeOffsets == {-1000, 0, 1, 622, 623, ballRadius, ballRadius + 1}
BrickBalls ==
  ProbeBalls({ProbeBrick.left - o : o \in EdgeOffsets}
               \cup {ProbeBrick.right + o : o \in EdgeOffsets},
             {ProbeBrick.top - o : o \in EdgeOffsets}
               \cup {ProbeBrick.bottom + o : o \in EdgeOffsets})

InitPhysics ==
  /\ Constructed([settings |-> Missing, highScores |-> Missing])
  /\ call \in [fn : {"checkWallCollision"}, ball : WallBalls,
               brick : {None}, result : {None}]
            \cup [fn : {"checkBrickCollision"}, ball : BrickBalls,
                  brick : {Some(ProbeBrick)}, result : {None}]

WallCall ==
  /\ call.fn = "checkWallCollision"
  /\ call.result = None
  /\ call' = [call EXCEPT !.result = Some(checkWallCollision(call.ball))]
  /\ UNCHANGED gameVars

BrickCall ==
  /\ call.fn = "checkBrickCollision"
  /\ call.result = None
  /\ call' = [call EXCEPT
                !.result = Some(checkBrickCollision(call.ball, call.brick[1]))]
  /\ UNCHANGED gameVars

NextPhysics == WallCall \/ BrickCall

SpecPhysics == InitPhysics /\ [][NextPhysics]_vars

(************************* properties ****************************************)
\* What an overlay was opened over, read from the frozen game: balls exist
\* exactly while a turn is animating, and bricks exist once a game has started.
PausedFrom == IF balls = <<>> THEN "aiming" ELSE "animating"
SettingsFrom == IF bricks = <<>> THEN "menu" ELSE "paused"

ResumeTap == [type |-> "tap", position |-> TogglePoint]
BackTap == [type |-> "tap", position |-> SettingsPoint]

ResumeStep ==
  /\ state = "paused"
  /\ \E rnd \in SpawnInputs : Becomes(handlePausedInput(Cur, ResumeTap, rnd))

BackStep ==
  /\ state = "settings"
  /\ \E writeOk \in SteadyWrites :
       Becomes(handleSettingsInput(Cur, BackTap, writeOk))

\* C1: Resume on the pause overlay returns the game to the state (aiming or
\* animating) the pause was entered from, also after the settings overlay was
\* opened from pause and closed with Back; and Back on the settings overlay
\* returns to the state (menu or paused) the settings were opened from.
C1_OverlaysRestore ==
  [][/\ ResumeStep => state' = PausedFrom
     /\ BackStep => state' = SettingsFrom]_vars

\* the transitions of the state diagram, from the state the step starts in
Allowed(a, b) ==
  \/ a = "menu" /\ b \in {"aiming", "settings"}
  \/ a = "aiming" /\ b \in {"launching", "paused"}
  \/ a = "launching" /\ b = "animating"
  \/ a = "animating" /\ b \in {"aiming", "gameOver", "paused"}
  \/ a = "paused" /\ b \in {"settings", PausedFrom}
  \/ a = "paused" /\ b = "aiming" /\ level' = 1 /\ balls' = <<>>
  \/ a = "settings" /\ b = SettingsFrom
  \/ a = "gameOver" /\ b = "aiming" /\ level' = 1 /\ balls' = <<>>

\* C2: every change of this.state follows the state diagram: menu -> aiming;
\* aiming -> launching -> animating; animating -> aiming or gameOver; paused
\* and settings are entered only from aiming, animating, menu (settings also
\* from paused) and left only to the state they were opened over or, by
\* restart, to a fresh aiming; gameOver is left only to a fresh aiming.
C2_StateDiagram ==
  [][/\ state' = IF stateWrites' = <<>> THEN state
                 ELSE stateWrites'[Len(stateWrites')]
     /\ \A i \in 1..Len(stateWrites') :
          LET a == IF i = 1 THEN state ELSE stateWrites'[i - 1]
              b == stateWrites'[i]
          IN a # b => Allowed(a, b)]_vars

\* a launch has gone through launching to animating
C2_Launched == state = "animating" /\ stateWrites = <<"launching", "animating">>

\* a frame of SpecFlight that finds the game animating
AnimatingTick ==
  /\ state = "animating"
  /\ \E frameMs \in FlightFrames, rnd \in SpawnInputs, writeOk \in SteadyWrites :
       Becomes(gameLoop(Cur, frameMs, rnd, writeOk))

C4_GameOverAtLastRow ==
  checkGameOver(bricks) <=>
    \E i \in 1..Len(bricks) : bricks[i].gridY >= GRID_ROWS - 1

\* the bricks and pickups endTurn keeps, in list order
KeptBricks ==
  SelectSeq(bricks, LAMBDA b : ~(b.destroying
                                 /\ b.destroyProgress >= DESTROY_ANIMATION_DURATION))
KeptPickups ==
  SelectSeq(pickups, LAMBDA p : /\ ~(p.collected
                                     /\ p.collectProgress >= COLLECT_ANIMATION_DURATION)
                                /\ p.gridY + 1 < GRID_ROWS)

\* a step that starts a new game
NewGame == ~turnEnded' /\ stateWrites' = <<"aiming">>

\* C5: the row advance of endTurn leaves every brick and pickup it keeps in
\* its column and exactly one row further down, and within a game no other
\* step changes the row of a brick or pickup.
C5_RowAdvance ==
  [][IF turnEnded'
       THEN /\ Len(bricks') >= Len(KeptBricks)
            /\ \A k \in 1..Len(KeptBricks) :
                 /\ bricks'[k].gridX = KeptBricks[k].gridX
                 /\ bricks'[k].gridY = KeptBricks[k].gridY + 1
            /\ Len(pickups') >= Len(KeptPickups)
            /\ \A k \in 1..Len(KeptPickups) :
                 /\ pickups'[k].gridX = KeptPickups[k].gridX
                 /\ pickups'[k].gridY = KeptPickups[k].gridY + 1
       ELSE NewGame
            \/ /\ Len(bricks') = Len(bricks)
               /\ \A k \in 1..Len(bricks) : bricks'[k].gridY = bricks[k].gridY
               /\ Len(pickups') = Len(pickups)
               /\ \A k \in 1..Len(pickups) : pickups'[k].gridY = pickups[k].gridY]_vars

\* a turn has just ended with rows of several ages on the grid
C5_RowsAdvanced ==
  /\ turnEnded
  /\ \E i \in 1..Len(bricks) : bricks[i].gridY >= SPAWN_ROW + 3
  /\ \E i \in 1..Len(pickups) : pickups[i].gridY >= SPAWN_ROW + 3

\* C6: when endTurn finds the game over, a level above the high score of the
\* mode easyMode selects becomes that high score and saveHighScores runs
\* exactly once; a level not above it leaves the high scores as they were and
\* saveHighScores does not run.
C6_HighScore ==
  [][(turnEnded' /\ state' = "gameOver") =>
       LET scoreKey == IF settings.easyMode THEN "easy" ELSE "normal"
       IN IF level > highScores[scoreKey]
            THEN /\ highScores' = [highScores EXCEPT ![scoreKey] = level]
                 /\ saveCalls'.highScores = 1
                 /\ storage'.highScores = Json(highScores')
            ELSE /\ highScores' = highScores
                 /\ saveCalls'.highScores = 0
                 /\ storage'.highScores = storage.highScores]_vars

\* a game has ended at a level that does not beat the high score set by an
\* earlier game
C6_NotBeaten ==
  /\ turnEnded
  /\ state = "gameOver"
  /\ saveCalls.highScores = 0
  /\ highScores[IF settings.easyMode THEN "easy" ELSE "normal"] >= level
  /\ highScores # [normal |-> StoredScore, easy |-> 0]
  /\ highScores # DefaultHighScores

\* C7: every brick has hits >= 0 and is destroying exactly when its hits are 0.
C7_HitCounter ==
  \A i \in 1..Len(bricks) :
    /\ bricks[i].hits >= 0
    /\ bricks[i].destroying <=> bricks[i].hits = 0

\* two balls have hit one brick in the same tick, and a brick is destroying
C7_TwoBallsOneBrick ==
  /\ \E h1, h2 \in tickHits : h1[2] = h2[2] /\ h1[1] # h2[1]
  /\ \E i \in 1..Len(bricks) : bricks[i].destroying

\* C8: after a tick in which checkBrickCollision reported a collision of a
\* ball with a brick, the ball is outside that brick's collision volume (the
\* call would report no collision for it).
C8_SeparatedAfterHit ==
  \A h \in tickHits :
    \A i \in 1..Len(balls) :
      (balls[i].id = h[1] /\ h[2] <= Len(bricks)) =>
        ~checkBrickCollision(balls[i], getBrickBounds(bricks[h[2]])).collided

\* the squared speed of a ball, in (100 units/s)^2
Speed2(b) == (b.vx \div 100) * (b.vx \div 100) + (b.vy \div 100) * (b.vy \div 100)

\* C9: a ball beyond the left, right or top wall leaves checkWallCollision
\* with the velocity component perpendicular to each wall it is beyond
\* negated, the other component unchanged, the same speed, and its position
\* on the radius-inset boundary of that wall.
C9_WallReflection ==
  (call.fn = "checkWallCollision" /\ call.result # None) =>
    LET m == call.ball
        w == call.result[1].ball
        strikesLeft == m.x - ballRadius <= 0
        strikesRight == m.x + ballRadius >= gameWidth
        strikesTop == m.y - ballRadius <= 0
    IN /\ w.vx = (IF strikesLeft \/ strikesRight THEN -m.vx ELSE m.vx)
       /\ w.vy = (IF strikesTop THEN -m.vy ELSE m.vy)
       /\ Speed2(w) = Speed2(m)
       /\ w.x = (IF strikesLeft THEN ballRadius
                 ELSE IF strikesRight THEN gameWidth - ballRadius ELSE m.x)
       /\ w.y = (IF strikesTop THEN ballRadius ELSE m.y)

\* C10: for a ball centre outside the brick rectangle in both x and y, a
\* distance to the nearest corner of at most the radius gives face = corner
\* and both velocity components negated; a larger distance gives no collision
\* and the ball unchanged.
C10_CornerHit ==
  (call.fn = "checkBrickCollision" /\ call.result # None) =>
    LET m == call.ball
        b == call.brick[1]
        res == call.result[1]
        nearX == IF Abs(m.x - b.left) <= Abs(m.x - b.right) THEN b.left ELSE b.right
        nearY == IF Abs(m.y - b.top) <= Abs(m.y - b.bottom) THEN b.top ELSE b.bottom
        dist2 == (m.x - nearX) * (m.x - nearX) + (m.y - nearY) * (m.y - nearY)
    IN ((m.x < b.left \/ m.x > b.right) /\ (m.y < b.top \/ m.y > b.bottom)) =>
         IF dist2 <= ballRadius * ballRadius
           THEN /\ res.collided
                /\ res.face = "corner"
                /\ res.ball.vx = -m.vx
                /\ res.ball.vy = -m.vy
           ELSE ~res.collided /\ res.ball = m

\* a corner hit has been reported
C10_CornerReported ==
  /\ call.fn = "checkBrickCollision"
  /\ call.result # None
  /\ call.result[1].face = "corner"

(************************* trajectory preview *******************************)
\* Directions are in thousandths, ray parameters and distances in length units.
MAX_TRAJECTORY_BOUNCES == 4
\* the lengths, in pixels, of the segment drawn when nothing is hit and of the
\* segment drawn after the last allowed bounce
FAR_SEGMENT == 2000
LAST_SEGMENT == 500
\* the initial tMax of raycastBrick
Infinity == 2000000000

\* Vector2.normalizeVector
normalizeVector(v) ==
  LET mag == ISqrt(v.x * v.x + v.y * v.y)
  IN IF mag = 0 THEN [x |-> 0, y |-> 0]
     ELSE [x |-> DivT(1000 * v.x, mag), y |-> DivT(1000 * v.y, mag)]

\* Vector2.reflectVector (normal is one of the unit axis vectors)
reflectVector(v, normal) ==
  LET d == v.x * normal.x + v.y * normal.y
  IN [x |-> v.x - 2 * d * normal.x, y |-> v.y - 2 * d * normal.y]

\* the ray parameter (num / den) of the raycasts, and the length t * |direction|
RayT(num, den) == DivT(num * 1000, den)
RayAt(from, d, t) == from + DivT(d * t, 1000)
RayDistance(t, direction) ==
  DivT(t * ISqrt(direction.x * direction.x + direction.y * direction.y), 1000)

\* hits.reduce of raycastWall: the first hit of least distance
RECURSIVE ClosestOf(_, _)
ClosestOf(closest, hits) ==
  IF hits = <<>> THEN closest
  ELSE ClosestOf(IF Head(hits).distance < closest.distance THEN Head(hits)
                 ELSE closest, Tail(hits))

\* Physics.raycastWall
raycastWall(origin, direction) ==
  LET r == ballRadius
      tLeft == RayT(r - origin.x, direction.x)
      yLeft == RayAt(origin.y, direction.y, tLeft)
      left ==
        IF direction.x < 0 /\ r - origin.x < 0
           /\ yLeft >= r /\ yLeft <= launchZoneTop - r
          THEN << [point |-> [x |-> r, y |-> yLeft],
                   normal |-> [x |-> 1, y |-> 0],
                   distance |-> RayDistance(tLeft, direction)] >>
        ELSE <<>>
      tRight == RayT(gameWidth - r - origin.x, direction.x)
      yRight == RayAt(origin.y, direction.y, tRight)
      right ==
        IF direction.x > 0 /\ gameWidth - r - origin.x > 0
           /\ yRight >= r /\ yRight <= launchZoneTop - r
          THEN << [point |-> [x |-> gameWidth - r, y |-> yRight],
                   normal |-> [x |-> -1, y |-> 0],
                   distance |-> RayDistance(tRight, direction)] >>
        ELSE <<>>
      tTop == RayT(r - origin.y, direction.y)
      xTop == RayAt(origin.x, direction.x, tTop)
      top ==
        IF direction.y < 0 /\ r - origin.y < 0
           /\ xTop >= r /\ xTop <= gameWidth - r
          THEN << [point |-> [x |-> xTop, y |-> r],
                   normal |-> [x |-> 0, y |-> 1],
                   distance |-> RayDistance(tTop, direction)] >>
        ELSE <<>>
      hits == left \o right \o top
  IN IF hits = <<>> THEN None ELSE Some(ClosestOf(Head(hits), Tail(hits)))

\* Physics.raycastBrick
raycastBrick(origin, direction, bounds) ==
  LET r == ballRadius
      expanded == [left |-> bounds.left - r, right |-> bounds.right + r,
                   top |-> bounds.top - r, bottom |-> bounds.bottom + r]
      x1 == RayT(expanded.left - origin.x, direction.x)
      x2 == RayT(expanded.right - origin.x, direction.x)
      xNear == Min(x1, x2)
      xFar == Max(x1, x2)
      missX == direction.x = 0
                 /\ (origin.x < expanded.left \/ origin.x > expanded.right)
      tMinX == IF direction.x # 0 /\ xNear > 0 THEN xNear ELSE 0
      normalX == IF direction.x # 0 /\ xNear > 0
                   THEN (IF direction.x > 0 THEN [x |-> -1, y |-> 0]
                         ELSE [x |-> 1, y |-> 0])
                 ELSE [x |-> 0, y |-> 0]
      tMaxX == IF direction.x # 0 THEN Min(Infinity, xFar) ELSE Infinity
      y1 == RayT(expanded.top - origin.y, direction.y)
      y2 == RayT(expanded.bottom - origin.y, direction.y)
      yNear == Min(y1, y2)
      yFar == Max(y1, y2)
      missY == direction.y = 0
                 /\ (origin.y < expanded.top \/ origin.y > expanded.bottom)
      tMin == IF direction.y # 0 /\ yNear > tMinX THEN yNear ELSE tMinX
      hitNormal == IF direction.y # 0 /\ yNear > tMinX
                     THEN (IF direction.y > 0 THEN [x |-> 0, y |-> -1]
                           ELSE [x |-> 0, y |-> 1])
                   ELSE normalX
      tMax == IF direction.y # 0 THEN Min(tMaxX, yFar) ELSE tMaxX
  IN IF missX \/ missY THEN None
     ELSE IF tMin > tMax \/ tMin < 0 THEN None
     ELSE Some([point |-> [x |-> RayAt(origin.x, direction.x, tMin),
                           y |-> RayAt(origin.y, direction.y, tMin)],
                normal |-> hitNormal,
                distance |-> RayDistance(tMin, direction)])

\* a raycast result counts when it is more than 0.1 pixel away
CountsAsHit(hit) == hit # None /\ hit[1].distance > PX \div 10

\* the loop over the bricks in calculateTrajectory
RECURSIVE ClosestBrickHit(_, _, _, _)
ClosestBrickHit(closestHit, currentPos, currentDir, rest) ==
  IF rest = <<>> THEN closestHit
  ELSE LET brick == Head(rest)
           brickHit == raycastBrick(currentPos, currentDir, getBrickBounds(brick))
           closer == /\ ~brick.destroying
                     /\ CountsAsHit(brickHit)
                     /\ (closestHit = None
                           \/ brickHit[1].distance < closestHit[1].distance)
       IN ClosestBrickHit(IF closer THEN brickHit ELSE closestHit,
                          currentPos, currentDir, Tail(rest))

\* the segment calculateTrajectory adds after the loop, omitted
LastSegment_None(points, currentDir, bounceCount) == points

\* the segment calculateTrajectory adds after the loop when the bounce limit
\* ended it
LastSegment(points, currentDir, bounceCount) ==
  IF bounceCount >= MAX_TRAJECTORY_BOUNCES /\ Len(points) > 0
    THEN LET lastPoint == points[Len(points)]
         IN Append(points,
              [position |->
                 [x |-> lastPoint.position.x + DivT(currentDir.x * LAST_SEGMENT * PX, 1000),
                  y |-> lastPoint.position.y + DivT(currentDir.y * LAST_SEGMENT * PX, 1000)],
               isBounce |-> FALSE])
  ELSE points

\* the bottom test of calculateTrajectory: the ray points down, the boundary
\* lies ahead and is closer than the closest hit
ReachesBottom(currentPos, currentDir, closestHit) ==
  /\ currentDir.y > 0
  /\ launchZoneTop - currentPos.y > 0
  /\ (closestHit = None
        \/ RayT(launchZoneTop - currentPos.y, currentDir.y) < closestHit[1].distance)

\* the while loop of calculateTrajectory
RECURSIVE TrajectoryLoop(_, _, _, _, _)
TrajectoryLoop(points, currentPos, currentDir, bounceCount, layout) ==
  IF bounceCount >= MAX_TRAJECTORY_BOUNCES
    THEN LastSegment(points, currentDir, bounceCount)
  ELSE
    LET wallHit == raycastWall(currentPos, currentDir)
        closestHit ==
          ClosestBrickHit(IF CountsAsHit(wallHit) THEN wallHit ELSE None,
                          currentPos, currentDir, layout)
        tBottom == RayT(launchZoneTop - currentPos.y, currentDir.y)
    IN IF ReachesBottom(currentPos, currentDir, closestHit)
         THEN LastSegment(
                Append(points,
                  [position |-> [x |-> RayAt(currentPos.x, currentDir.x, tBottom),
                                 y |-> launchZoneTop],
                   isBounce |-> FALSE]),
                currentDir, bounceCount)
       ELSE IF closestHit = None
         THEN LastSegment(
                Append(points,
                  [position |->
                     [x |-> currentPos.x + DivT(currentDir.x * FAR_SEGMENT * PX, 1000),
                      y |-> currentPos.y + DivT(currentDir.y * FAR_SEGMENT * PX, 1000)],
                   isBounce |-> FALSE]),
                currentDir, bounceCount)
       ELSE TrajectoryLoop(
              Append(points, [position |-> closestHit[1].point, isBounce |-> TRUE]),
              closestHit[1].point,
              reflectVector(currentDir, closestHit[1].normal),
              bounceCount + 1, layout)

\* calculateTrajectory with currentPos sharing the caller's startPosition
\* object: the caller's vector ends up at the last bounce
calculateTrajectory_SharedStart(startPosition, direction, layout) ==
  LET points == TrajectoryLoop(<< [position |-> startPosition, isBounce |-> FALSE] >>,
                               startPosition, normalizeVector(direction), 0, layout)
      bounces == SelectSeq(points, LAMBDA p : p.isBounce)
  IN [points |-> points,
      startPosition |-> IF bounces = <<>> THEN startPosition
                        ELSE bounces[Len(bounces)].position,
      direction |-> direction, bricks |-> layout]

\* TrajectoryCalculator.calculateTrajectory: the returned points, and the
\* caller's startPosition, direction and bricks as the call leaves them (it
\* works on copies, { ...startPosition } and { ...normalizedDir })
calculateTrajectory(startPosition, direction, layout) ==
  [points |-> TrajectoryLoop(<< [position |-> startPosition, isBounce |-> FALSE] >>,
                             startPosition, normalizeVector(direction), 0, layout),
   startPosition |-> startPosition, direction |-> direction, bricks |-> layout]

\* origins: the point the preview and the balls of Game start from (in the
\* launch zone, below the bottom boundary), Game.launchPosition (on the
\* boundary), the middle of the field, and a point low on the left
TrajectoryOrigins ==
  { [x |-> centerX, y |-> LaunchZoneY], [x |-> centerX, y |-> launchZoneTop],
    [x |-> centerX, y |-> centerY],
    [x |-> 20 * PX, y |-> launchZoneTop - 40 * PX] }

\* directions: the two clamped aims, steep aims, straight up, horizontal,
\* down-left, down-right, straight down, and the zero vector
TrajectoryDirections ==
  { [x |-> COS_CLAMP, y |-> -SIN_CLAMP], [x |-> 600, y |-> -800],
    [x |-> -600, y |-> -800], [x |-> 0, y |-> -1000], [x |-> 1000, y |-> 0],
    [x |-> -700, y |-> 700], [x |-> 700, y |-> 700], [x |-> 0, y |-> 1000],
    [x |-> -3000, y |-> 4000], [x |-> 0, y |-> 0] }

\* brick layouts: none, a spawned row, and rows with a brick being destroyed
TrajectoryLayouts ==
  { <<>>,
    << createBrick(3, SPAWN_ROW, 1), createBrick(5, SPAWN_ROW, 2),
       createBrick(8, SPAWN_ROW, 1) >>,
    << [createBrick(5, 5, 1) EXCEPT !.destroying = TRUE],
       createBrick(5, 3, 1), createBrick(9, 6, 1), createBrick(1, 8, 3) >>,
    << createBrick(0, 9, 1), createBrick(10, 9, 1), createBrick(5, 9, 1),
       createBrick(4, 4, 1), createBrick(6, 4, 1) >> }

\* the preview is computed here at most twice for the same arguments
MaxInvocations == 2

InitTrajectory ==
  /\ Constructed([settings |-> Missing, highScores |-> Missing])
  /\ \E o \in TrajectoryOrigins, d \in TrajectoryDirections, l \in TrajectoryLayouts :
       call = [fn |-> "calculateTrajectory",
               given |-> [startPosition |-> o, direction |-> d, bricks |-> l],
               startPosition |-> o, direction |-> d, bricks |-> l,
               invocations |-> 0, result |-> None, previous |-> None]

\* one invocation on the caller's objects as the previous invocation left them
TrajectoryCall ==
  /\ call.fn = "calculateTrajectory"
  /\ call.invocations < MaxInvocations
  /\ LET r == calculateTrajectory(call.startPosition, call.direction, call.bricks)
     IN call' = [call EXCEPT !.startPosition = r.startPosition,
                             !.direction = r.direction,
                             !.bricks = r.bricks,
                             !.invocations = @ + 1,
                             !.result = Some(r.points),
                             !.previous = call.result]
  /\ UNCHANGED gameVars

NextTrajectory == TrajectoryCall

SpecTrajectory == InitTrajectory /\ [][NextTrajectory]_vars

\* the bounce-tagged points of a path
Bounces(points) == SelectSeq(points, LAMBDA p : p.isBounce)

\* C11: every path calculateTrajectory returns starts with the origin it was
\* given, tagged non-bounce, has at most MAX_TRAJECTORY_BOUNCES bounce-tagged
\* points, and ends with a non-bounce point.
C11_PathShape ==
  (call.fn = "calculateTrajectory" /\ call.result # None) =>
    LET points == call.result[1]
    IN /\ Len(points) >= 2
       /\ points[1] = [position |-> call.given.startPosition, isBounce |-> FALSE]
       /\ Len(Bounces(points)) <= MAX_TRAJECTORY_BOUNCES
       /\ ~points[Len(points)].isBounce

\* a path that used all the bounces allowed
C11_FourBounces ==
  /\ call.fn = "calculateTrajectory"
  /\ call.result # None
  /\ Len(Bounces(call.result[1])) = MAX_TRAJECTORY_BOUNCES

\* the closest wall or brick hit of the first ray of a call, as the raycasts
\* report it
FirstHit(given) ==
  LET d == normalizeVector(given.direction)
      wallHit == raycastWall(given.startPosition, d)
  IN ClosestBrickHit(IF CountsAsHit(wallHit) THEN wallHit ELSE None,
                     given.startPosition, d, given.bricks)

\* the point where the first ray of a call meets the bottom boundary
BottomPoint(given) ==
  LET d == normalizeVector(given.direction)
      tBottom == RayT(launchZoneTop - given.startPosition.y, d.y)
  IN [x |-> RayAt(given.startPosition.x, d.x, tBottom), y |-> launchZoneTop]

\* the first half of C12: a first ray that points down, from above the bottom
\* boundary, and meets the boundary before any wall or brick gives the path
\* <<origin, boundary point>>, both non-bounce
C12_EndsAtBottom ==
  (call.fn = "calculateTrajectory" /\ call.result # None) =>
    LET d == normalizeVector(call.given.direction)
        o == call.given.startPosition
        hit == FirstHit(call.given)
    IN (/\ d.y > 0
        /\ launchZoneTop - o.y > 0
        /\ (hit = None \/ RayT(launchZoneTop - o.y, d.y) < hit[1].distance)) =>
         call.result[1] = << [position |-> o, isBounce |-> FALSE],
                             [position |-> BottomPoint(call.given), isBounce |-> FALSE] >>

\* C12: a path whose ray points down and meets the bottom boundary before any
\* wall or brick ends at that intersection with a non-bounce point; for an aim
\* down-left from the launch point with no bricks the path is exactly the
\* origin and a point on the bottom boundary, both non-bounce.
C12_BottomTermination ==
  /\ C12_EndsAtBottom
  /\ (call.fn = "calculateTrajectory" /\ call.result # None) =>
       LET d == call.given.direction
           points == call.result[1]
       IN (/\ call.given.startPosition \in
                 { [x |-> centerX, y |-> LaunchZoneY],
                   [x |-> centerX, y |-> launchZoneTop] }
           /\ d.x < 0 /\ d.y > 0
           /\ call.given.bricks = <<>>) =>
            /\ Len(points) = 2
            /\ points[1] = [position |-> call.given.startPosition, isBounce |-> FALSE]
            /\ points[2].position.y = launchZoneTop
            /\ ~points[2].isBounce

AimXs == {0, 100 * PX, 170 * PX, centerX, 180 * PX, 250 * PX, gameWidth}
AimYs ==
  {LaunchZoneY - 400 * PX, LaunchZoneY - 100 * PX, LaunchZoneY - 20 * PX,
   LaunchZoneY - 11 * PX, LaunchZoneY - 10 * PX, LaunchZoneY,
   LaunchZoneY + 15 * PX, LaunchZoneY + 30 * PX}
AimPoints == [x : AimXs, y : AimYs]
AimEvents ==
  Taps({PlayPoint}) \cup [type : {"aimStart", "aimMove"}, position : AimPoints]

NextAim ==
  \/ MenuInput(AimEvents)
  \/ AimingInput(AimEvents)

SpecAim == Init /\ [][NextAim]_vars

\* sin(MIN_LAUNCH_ANGLE) in thousandths, less one for the rounding of a
\* direction to thousandths; sin 10 = cos 80
MinElevationSin == COS_CLAMP - 1

\* C14: every aim direction set while aiming points upward (y < 0) and is at
\* least MIN_LAUNCH_ANGLE (10 degrees) above the horizontal.
C14_MinElevation ==
  (state = "aiming" /\ aimDirection # None) =>
    /\ aimDirection[1].y < 0
    /\ -aimDirection[1].y >= MinElevationSin

\* the step of an aim-move event e handled while aiming
AimMoveStep(e) ==
  /\ state = "aiming"
  /\ e.type = "aimMove"
  /\ ~(isMovingLaunchPoint /\ settings.easyMode)
  /\ Becomes(handleAimingInput(Cur, e))

\* C15: an aim-move with the pointer to the lower left of the launch point
\* leaves an aim direction pointing up and to the right, and one with the
\* pointer to the lower right leaves an aim direction pointing up and to the
\* left.
C15_InvertedAim ==
  [][\A e \in AimEvents :
       (AimMoveStep(e) /\ e.position.y > LaunchZoneY
          /\ e.position.x # launchPosition.x) =>
         /\ aimDirection' # None
         /\ aimDirection'[1].y < 0
         /\ IF e.position.x < launchPosition.x
              THEN aimDirection'[1].x > 0
              ELSE aimDirection'[1].x < 0]_vars

(************************* speed button **************************************)
\* Game.handleInput: the switch over this.state
handleInput(g, e, rnd, writeOk) ==
  CASE g.state = "menu" -> handleMenuInput(g, e, rnd)
    [] g.state = "aiming" -> handleAimingInput(g, e)
    [] g.state = "animating" -> handleAnimatingInput(g, e)
    [] g.state = "paused" -> handlePausedInput(g, e, rnd)
    [] g.state = "settings" -> handleSettingsInput(g, e, writeOk)
    [] g.state = "gameOver" -> handleGameOverInput(g, e, rnd)
    [] OTHER -> g

\* the first turn of a game with the speed button (the Space key), Escape and
\* the overlay buttons: the player aims during the first MaxSpeedLevel
\* levels and only taps after that
MaxSpeedLevel == 1
SpeedTaps == Taps({PlayPoint, SettingsPoint, SpacePoint, EscapePoint})
SpeedEvents == SpeedTaps \cup Drags({PlayPoint})

NextSpeed ==
  \/ MenuInput(SpeedEvents)
  \/ (level <= MaxSpeedLevel /\ AimingInput(SpeedEvents))
  \/ (level > MaxSpeedLevel /\ AimingInput(SpeedTaps))
  \/ AnimatingInput(SpeedEvents)
  \/ PausedInput(SpeedEvents)
  \/ SettingsInput(SpeedEvents, SteadyWrites)
  \/ Frame(SteadyFrames, MaxSpeedLevel + 1, SteadyWrites)

SpecSpeed == Init /\ [][NextSpeed]_vars

\* a step in which handleInput handles a tap on the speed button
ToggleStep ==
  \E rnd \in SpawnInputs, writeOk \in SteadyWrites :
    Becomes(handleInput(Cur, [type |-> "tap", position |-> SpacePoint], rnd, writeOk))

\* C16: after every step the speed multiplier is 1, 2 or 4, and it is 1
\* whenever a turn is being aimed; a tap on the speed button while animating
\* takes 1 to 2, 2 to 4 and 4 to 1, and in every other state leaves the
\* multiplier as it was; no other step changes the multiplier except to reset
\* it to 1.
C16_SpeedMultiplier ==
  [][/\ speedMultiplier' \in {1, 2, 4}
     /\ state' = "aiming" => speedMultiplier' = 1
     /\ (ToggleStep /\ state = "animating") =>
          speedMultiplier' = (CASE speedMultiplier = 1 -> 2
                                [] speedMultiplier = 2 -> 4
                                [] OTHER -> 1)
     /\ (ToggleStep /\ state # "animating") =>
          speedMultiplier' = speedMultiplier
     /\ (speedMultiplier' # speedMultiplier) =>
          \/ ToggleStep /\ state = "animating"
          \/ speedMultiplier' = 1]_vars

\* the speed button has been tapped twice during a flight
C16_ToggledTwice ==
  /\ state = "animating"
  /\ speedMultiplier = 4
  /\ \E i \in 1..Len(balls) : balls[i].active

(************************* one physics step **********************************)
\* the ball loop body of Game.updateAnimating for one ball and one brick:
\* updateBall, then checkWallCollision, then checkBrickCollision
PhysicsStep(ball, bounds, deltaMs, mult) ==
  LET moved == updateBall(ball, deltaMs, mult)
      wall == checkWallCollision(moved)
      brick == checkBrickCollision(wall.ball, bounds)
  IN [moved |-> moved, wallCollided |-> wall.collided,
      brickCollided |-> brick.collided, ball |-> brick.ball]

\* the velocity launchBalls gives a ball for an aim direction, with the signs
\* its bounces can have given it
StepVelocities ==
  { [vx |-> sx * DivT(d.x * BALL_SPEED * PX, 1000),
     vy |-> sy * DivT(d.y * BALL_SPEED * PX, 1000)] :
      d \in { [x |-> COS_CLAMP, y |-> -SIN_CLAMP], AimDirection(175 * PX, 20 * PX),
              [x |-> 600, y |-> -800] },
      sx \in {-1, 1}, sy \in {-1, 1} }

\* ball centres outside the expanded rectangle of the brick: level with its
\* middle or below, above, left and right of it, from just outside to 40 pixels
\* away, and near the left and the top wall
StepOffsets == {1, 10 * PX, 40 * PX}
StepBalls_Around ==
  LET midX == (ProbeBrick.left + ProbeBrick.right) \div 2
      midY == (ProbeBrick.top + ProbeBrick.bottom) \div 2
      places ==
        { [x |-> midX, y |-> ProbeBrick.bottom + ballRadius + o] : o \in StepOffsets }
        \cup { [x |-> midX, y |-> ProbeBrick.top - ballRadius - o] : o \in StepOffsets }
        \cup { [x |-> ProbeBrick.left - ballRadius - o, y |-> midY] : o \in StepOffsets }
        \cup { [x |-> ProbeBrick.right + ballRadius + o, y |-> midY] : o \in StepOffsets }
        \cup { [x |-> ballRadius + o, y |-> ballRadius + 10 * PX + o] : o \in StepOffsets }
  IN { [id |-> 0, x |-> q.x, y |-> q.y, vx |-> v.vx, vy |-> v.vy, active |-> TRUE] :
         q \in places, v \in StepVelocities }

\* frame times in milliseconds: 60 frames per second, and the cap of gameLoop
StepFrames == {16, MAX_DELTA_MS}

InitStep ==
  /\ Constructed([settings |-> Missing, highScores |-> Missing])
  /\ call \in [fn : {"step"}, ball : StepBalls_Around, brick : {ProbeBrick},
               deltaMs : StepFrames, mult : {1, 2, 4}, result : {None}]

StepCall ==
  /\ call.fn = "step"
  /\ call.result = None
  /\ call' = [call EXCEPT
                !.result = Some(PhysicsStep(call.ball, call.brick,
                                            call.deltaMs, call.mult))]
  /\ UNCHANGED gameVars

NextStep == StepCall

SpecStep == InitStep /\ [][NextStep]_vars

\* the ball centre is carried from one side of the expanded rectangle of the
\* brick to the opposite side, inside the band the rectangle spans
CrossesBrick(before, after, b) ==
  LET l == b.left - ballRadius
      r == b.right + ballRadius
      t == b.top - ballRadius
      u == b.bottom + ballRadius
  IN \/ /\ before.x >= l /\ before.x <= r /\ after.x >= l /\ after.x <= r
        /\ (before.y > u /\ after.y < t) \/ (before.y < t /\ after.y > u)
     \/ /\ before.y >= t /\ before.y <= u /\ after.y >= t /\ after.y <= u
        /\ (before.x > r /\ after.x < l) \/ (before.x < l /\ after.x > r)

\* C17: in one step of at most 100 ms, at multiplier 1, 2 or 4, a ball carried
\* across a wall is reported by checkWallCollision, and a ball carried from
\* one side of a brick's radius-expanded rectangle to the other is reported by
\* checkBrickCollision.
C17_NoTunnelling ==
  (call.fn = "step" /\ call.result # None) =>
    LET before == call.ball
        res == call.result[1]
    IN /\ (res.moved.x - ballRadius <= 0 \/ res.moved.y - ballRadius <= 0
             \/ res.moved.x + ballRadius >= gameWidth) => res.wallCollided
       /\ CrossesBrick(before, res.moved, call.brick) => res.brickCollided

\* the wall half of C17 alone
C17_WallsReported ==
  (call.fn = "step" /\ call.result # None) =>
    LET res == call.result[1]
    IN (res.moved.x - ballRadius <= 0 \/ res.moved.y - ballRadius <= 0
          \/ res.moved.x + ballRadius >= gameWidth) => res.wallCollided

(************************* GridManager.spawnNewRow called directly ***********)
\* GridManager.shuffleArray: for i from the last index down to 1, swap
\* array[i] with array[j], j = draws[i] mod (i + 1) standing for
\* Math.floor(Math.random() * (i + 1)); indices count from 0 as in the source
RECURSIVE shuffleArray(_, _, _)
shuffleArray(array, draws, i) ==
  IF i <= 0 THEN array
  ELSE LET j == draws[i] % (i + 1)
       IN shuffleArray([array EXCEPT ![i + 1] = array[j + 1],
                                     ![j + 1] = array[i + 1]],
                       draws, i - 1)

\* Array.from({ length: GRID_COLS }, (_, i) => i)
AllColumns == [i \in 1..GRID_COLS |-> i - 1]

\* the draws of the first shuffle: no swap at all, always the first element,
\* and two mixed sequences
ShuffleDraws ==
  { [i \in 1..(GRID_COLS - 1) |-> i], [i \in 1..(GRID_COLS - 1) |-> 0],
    [i \in 1..(GRID_COLS - 1) |-> (7 * i + 3) % (i + 1)],
    [i \in 1..(GRID_COLS - 1) |-> (i * i) % (i + 1)] }

\* the largest difficulty passed to spawnNewRow (Game passes its level, which
\* starts at 1) and the largest seed of the hit rolls
MaxDifficulty == 12
MaxRoll == 4
\* levels: the first, and multiples of one, two and all of the intervals
SpawnLevels == {1, 7, 10, 15, 30, 60, 100, 300}
SpawnDraws ==
  { [numBricks |-> n, shuffled |-> shuffleArray(AllColumns, d, GRID_COLS - 1),
     rotate |-> r, seed |-> k] :
      n \in MIN_BRICKS_PER_ROW..MAX_BRICKS_PER_ROW, d \in ShuffleDraws,
      r \in {0, 2}, k \in 0..MaxRoll }

InitSpawn ==
  /\ Constructed([settings |-> Missing, highScores |-> Missing])
  /\ call \in [fn : {"spawnNewRow"}, ballCount : 1..MaxDifficulty,
               level : SpawnLevels, rnd : SpawnDraws, result : {None}]

SpawnCall ==
  /\ call.fn = "spawnNewRow"
  /\ call.result = None
  /\ call' = [call EXCEPT
                !.result = Some(spawnNewRow(call.ballCount, call.level, call.rnd))]
  /\ UNCHANGED gameVars

NextSpawn == SpawnCall

SpecSpawn == InitSpawn /\ [][NextSpawn]_vars

\* C18: every row spawnNewRow returns has 3 to 5 bricks in pairwise distinct
\* columns within 0..GRID_COLS-1, each with at least one hit, and its pickups
\* stand in pairwise distinct columns of the grid that no brick of the row
\* occupies, so there are no more pickups than columns without a brick.
C18_RowShape ==
  (call.fn = "spawnNewRow" /\ call.result # None) =>
    LET bs == call.result[1].bricks
        ps == call.result[1].pickups
    IN /\ Len(bs) >= MIN_BRICKS_PER_ROW /\ Len(bs) <= MAX_BRICKS_PER_ROW
       /\ \A i \in 1..Len(bs) :
            /\ bs[i].gridX \in 0..(GRID_COLS - 1)
            /\ bs[i].hits >= 1
            /\ \A j \in 1..Len(bs) : bs[i].gridX = bs[j].gridX => i = j
       /\ \A i \in 1..Len(ps) :
            /\ ps[i].gridX \in 0..(GRID_COLS - 1)
            /\ \A j \in 1..Len(bs) : ps[i].gridX # bs[j].gridX
            /\ \A j \in 1..Len(ps) : ps[i].gridX = ps[j].gridX => i = j
       /\ Len(ps) <= GRID_COLS - Len(bs)

\* a row of five bricks and five pickups has been spawned
C18_FullRow ==
  /\ call.fn = "spawnNewRow"
  /\ call.result # None
  /\ Len(call.result[1].bricks) = MAX_BRICKS_PER_ROW
  /\ Len(call.result[1].pickups) = 5

\* C19: with d the first argument of spawnNewRow and v = floor(d / 5), every
\* brick of the row has between max(1, d - v) and d + v hits, and exactly
\* max(1, d) hits when d < 5.
C19_HitsRange ==
  (call.fn = "spawnNewRow" /\ call.result # None) =>
    LET bs == call.result[1].bricks
        d == call.ballCount
        v == d \div 5
    IN \A i \in 1..Len(bs) :
         /\ bs[i].hits >= Max(1, d - v)
         /\ bs[i].hits <= d + v
         /\ d < 5 => bs[i].hits = Max(1, d)

\* a row whose bricks take both ends of the range has been spawned
C19_BothEnds ==
  /\ call.fn = "spawnNewRow"
  /\ call.result # None
  /\ call.ballCount >= 10
  /\ LET bs == call.result[1].bricks
         d == call.ballCount
     IN /\ \E i \in 1..Len(bs) : bs[i].hits = d - d \div 5
        /\ \E i \in 1..Len(bs) : bs[i].hits = d + d \div 5

\* the pickup types of the row that has just been spawned
NewRowTypes == { pickups[i].type : i \in { k \in 1..Len(pickups) : pickups[k].gridY = SPAWN_ROW } }

\* C20: the row spawned when a turn ends at level L holds one standard pickup
\* and, of the multiplier pickups, exactly those whose spawn interval divides L.
C20_IntervalPickups ==
  (turnEnded /\ state = "aiming") =>
    /\ "ball" \in NewRowTypes
    /\ \A t \in {"x2", "x3", "x5", "x10"} :
         t \in NewRowTypes <=> level % MULTIPLIER_SPAWN_INTERVALS[t] = 0

\* the part of C20 that does not depend on the level: every spawned row holds
\* exactly one pickup, and it is the standard one
C20_StandardOnly ==
  (turnEnded /\ state = "aiming") =>
    /\ NewRowTypes = {"ball"}
    /\ Cardinality({ k \in 1..Len(pickups) : pickups[k].gridY = SPAWN_ROW }) = 1

(************************* failing storage writes ****************************)
\* a whole game in which localStorage.setItem may throw
WriteOutcomes == {TRUE, FALSE}
StorageEvents ==
  Taps({PlayPoint, SettingsPoint, TogglePoint}) \cup Drags({PlayPoint})

NextStorage ==
  \/ MenuInput(StorageEvents)
  \/ AimingInput(StorageEvents)
  \/ AnimatingInput(StorageEvents)
  \/ SettingsInput(StorageEvents, WriteOutcomes)
  \/ GameOverInput(StorageEvents)
  \/ Frame(SteadyFrames, MaxLevel, WriteOutcomes)

SpecStorage == Init /\ [][NextStorage]_vars

\* C21: a step in which saveHighScores or saveSettings ran and the write
\* failed (the stored blob is not the new value) still completes: after a
\* failed high-score write the state is gameOver and the in-memory high score
\* of the active mode is the level reached; after a failed settings write the
\* easy-mode flag has been toggled and the settings screen stays open.
C21_WriteFailuresSwallowed ==
  [][/\ (saveCalls'.highScores > 0 /\ storage'.highScores # Json(highScores')) =>
          /\ state' = "gameOver"
          /\ turnEnded'
          /\ highScores'[IF settings.easyMode THEN "easy" ELSE "normal"] = level
          /\ level > highScores[IF settings.easyMode THEN "easy" ELSE "normal"]
     /\ (saveCalls'.settings > 0 /\ storage'.settings # Json(settings')) =>
          /\ settings'.easyMode = ~settings.easyMode
          /\ state' = "settings"]_vars

\* a game has ended with a new high score whose write failed
C21_FailedScoreWrite ==
  /\ state = "gameOver"
  /\ saveCalls.highScores > 0
  /\ storage.highScores # Json(highScores)

\* the easy-mode toggle has been tapped and its write failed
C21_FailedSettingsWrite ==
  /\ state = "settings"
  /\ saveCalls.settings > 0
  /\ storage.settings # Json(settings)

(************************* launch and ball counters **************************)
\* C22: an aim-end while aiming with no aim direction set changes nothing but
\* the launch-point grab flag; a step from aiming to animating happens only
\* with an aim direction set, and leaves exactly ballCount balls, all
\* inactive, all at (launchPosition.x, launch zone height), with pairwise
\* distinct ids and velocity aim direction x BALL_SPEED (no speed multiplier),
\* the launched and returned counters at 0, and the state animating.
C22_Launch ==
  [][/\ \A e \in SteadyEvents :
          (state = "aiming" /\ e.type = "aimEnd" /\ aimDirection = None
             /\ Becomes(handleAimingInput(Cur, e))) =>
            (state' = "aiming" /\ balls' = balls /\ ballsLaunched' = ballsLaunched)
     /\ (state = "aiming" /\ state' = "animating") =>
          /\ aimDirection # None
          /\ Len(balls') = ballCount
          /\ \A i \in 1..Len(balls') :
               /\ ~balls'[i].active
               /\ balls'[i].x = launchPosition.x
               /\ balls'[i].y = LaunchZoneY
               /\ balls'[i].vx = DivT(aimDirection[1].x * BALL_SPEED * PX, 1000)
               /\ balls'[i].vy = DivT(aimDirection[1].y * BALL_SPEED * PX, 1000)
               /\ \A j \in 1..Len(balls') : balls'[i].id = balls'[j].id => i = j
          /\ ballsLaunched' = 0
          /\ ballsReturned' = 0]_vars

\* several balls have just been launched
C22_SeveralLaunched ==
  /\ state = "animating"
  /\ stateWrites = <<"launching", "animating">>
  /\ Len(balls) >= 3
  /\ ballCount = Len(balls)

(************************* launch spacing ************************************)
\* a game whose first SlowLevels turns run at 10 frames per second and are
\* played without the speed button, and whose next turn runs at 100 frames
\* per second with the speed button: at that rate the delay between two
\* activations spans several frames at every multiplier
SlowLevels == 4
FastFrames == {10}
LaunchEvents == Taps({PlayPoint}) \cup Drags({PlayPoint})

NextLaunch ==
  \/ MenuInput(LaunchEvents)
  \/ (level <= SlowLevels + 1 /\ AimingInput(LaunchEvents))
  \/ (level > SlowLevels /\ AnimatingInput(Taps({SpacePoint})))
  \/ Frame(IF level <= SlowLevels THEN SteadyFrames ELSE FastFrames,
           SlowLevels + 2, SteadyWrites)

SpecLaunch == Init /\ [][NextLaunch]_vars

\* a frame of SpecLaunch of frameMs milliseconds that finds the game animating
LaunchTick(frameMs) ==
  /\ state = "animating"
  /\ \E rnd \in SpawnInputs, writeOk \in SteadyWrites :
       Becomes(gameLoop(Cur, frameMs, rnd, writeOk))

\* the number of active balls
ActiveCount(bs) == Cardinality({ i \in 1..Len(bs) : bs[i].active })

\* C23: an animating tick activates at most one ball, the next in creation
\* order (the balls not yet launched are the inactive tail of the list); the
\* first animating tick of a turn activates the first ball; and a tick that
\* activates a later ball comes at least BALL_LAUNCH_DELAY / speedMultiplier
\* milliseconds after the previous activation.
C23_SequencedActivation ==
  [][\A frameMs \in SteadyFrames \cup FastFrames :
       LaunchTick(frameMs) =>
         /\ ballsLaunched' \in {ballsLaunched, ballsLaunched + 1}
         /\ ~turnEnded' =>
              /\ \A i \in 1..Len(balls') :
                   (i > ballsLaunched' => ~balls'[i].active)
                   /\ (balls'[i].active /\ ~balls[i].active => i = ballsLaunched')
         /\ ballsLaunched = 0 => ballsLaunched' = 1
         /\ (ballsLaunched >= 1 /\ ballsLaunched' = ballsLaunched + 1) =>
              (sinceLaunch + frameMs) * speedMultiplier >= BALL_LAUNCH_DELAY]_vars

\* a queued ball is waiting for the delay to pass: the previous activation was
\* less than the delay ago
C23_Waiting ==
  /\ state = "animating"
  /\ ballsLaunched >= 1
  /\ ballsLaunched < Len(balls)
  /\ sinceLaunch > 0
  /\ sinceLaunch * speedMultiplier < BALL_LAUNCH_DELAY

(************************* next launch position ******************************)
\* the game after the ball loop of a frame of frameMs milliseconds
AfterBalls(frameMs) ==
  MoveBalls([Cur EXCEPT !.sinceLaunch = Min(@ + frameMs, BALL_LAUNCH_DELAY)],
            Min(frameMs, MAX_DELTA_MS))

\* the balls that return in a frame of frameMs milliseconds, by index
ReturningBalls(frameMs) ==
  { i \in 1..Len(balls) :
      /\ ~AfterBalls(frameMs).balls[i].active
      /\ \/ balls[i].active
         \/ i = ballsLaunched + 1 /\ AfterBalls(frameMs).ballsLaunched = i }

\* x clamped to [ballRadius, gameWidth - ballRadius]
ClampLaunchX(x) ==
  IF x < ballRadius THEN ballRadius
  ELSE IF x > gameWidth - ballRadius THEN gameWidth - ballRadius
  ELSE x

\* C24: in an animating frame, a next launch position that is set stays as it
\* is; one that is not set is set exactly when a ball returns, to the clamped
\* x of the first ball returning in that frame; and the frame that ends the
\* turn makes the launch position of the following turn the next launch
\* position fixed during the turn.
C24_NextLaunchPosition ==
  [][\A frameMs \in SteadyFrames :
       LaunchTick(frameMs) =>
         /\ nextLaunchPosition # None => nextLaunchPosition' = nextLaunchPosition
         /\ (nextLaunchPosition = None /\ ReturningBalls(frameMs) = {}) =>
              nextLaunchPosition' = None
         /\ (nextLaunchPosition = None /\ ReturningBalls(frameMs) # {}) =>
              LET first == CHOOSE i \in ReturningBalls(frameMs) :
                             \A j \in ReturningBalls(frameMs) : i <= j
                  x == AfterBalls(frameMs).balls[first].x
              IN /\ nextLaunchPosition' # None
                 /\ nextLaunchPosition'[1].x = ClampLaunchX(x)
                 /\ nextLaunchPosition'[1].x >= ballRadius
                 /\ nextLaunchPosition'[1].x <= gameWidth - ballRadius
         /\ turnEnded' =>
              /\ nextLaunchPosition' # None
              /\ launchPosition'.x = nextLaunchPosition'[1].x]_vars

\* a later ball has returned at another place than the first one
C24_LaterBallElsewhere ==
  /\ state = "animating"
  /\ nextLaunchPosition # None
  /\ \E i \in 1..Len(balls) :
       /\ i <= ballsLaunched
       /\ ~balls[i].active
       /\ ClampLaunchX(balls[i].x) # nextLaunchPosition[1].x

(************************* turn resolution ***********************************)
\* the columns of the bricks and pickups of the spawn row, one entry per item
TopRow(bs, ps) ==
  [i \in 1..Len(SelectSeq(bs, LAMBDA b : b.gridY = SPAWN_ROW)) |->
     SelectSeq(bs, LAMBDA b : b.gridY = SPAWN_ROW)[i].gridX]
  \o [i \in 1..Len(SelectSeq(ps, LAMBDA q : q.gridY = SPAWN_ROW)) |->
        SelectSeq(ps, LAMBDA q : q.gridY = SPAWN_ROW)[i].gridX]

\* C25: the frame that resolves a turn empties the ball list and leaves the
\* game in aiming or in gameOver.  In aiming the level is one higher, the spawn
\* row holds one new row (at least one item, no two in one column) and nothing
\* else is new, the aim direction is cleared and the speed multiplier is 1.
\* In gameOver the level is unchanged and the spawn row is empty: no row was spawned.
C25_TurnResolution ==
  [][\A frameMs \in SteadyFrames :
       (LaunchTick(frameMs) /\ turnEnded') =>
         /\ balls' = <<>>
         /\ state' \in {"aiming", "gameOver"}
         /\ state' = "aiming" =>
              /\ level' = level + 1
              /\ Len(TopRow(bricks', pickups')) >= 1
              /\ \A i, j \in 1..Len(TopRow(bricks', pickups')) :
                   i # j => TopRow(bricks', pickups')[i] # TopRow(bricks', pickups')[j]
              /\ Len(bricks') + Len(pickups') - Len(TopRow(bricks', pickups'))
                   <= Len(AfterBalls(frameMs).bricks) + Len(AfterBalls(frameMs).pickups)
              /\ aimDirection' = None
              /\ speedMultiplier' = 1
         /\ state' = "gameOver" =>
              /\ level' = level
              /\ Len(TopRow(bricks', pickups')) = 0
              /\ Len(bricks') <= Len(AfterBalls(frameMs).bricks)
              /\ Len(pickups') <= Len(AfterBalls(frameMs).pickups)]_vars

\* a turn has just resolved into game over, after turns that resolved into aiming
C25_ResolvedIntoGameOver ==
  /\ state = "gameOver"
  /\ turnEnded
  /\ level >= 2
  /\ balls = <<>>

\* a turn has just resolved into aiming with the speed multiplier reset
C25_ResolvedIntoAiming ==
  /\ state = "aiming"
  /\ turnEnded
  /\ level >= 2
  /\ balls = <<>>

(************************* pickup collection *********************************)
\* ball b is within ballRadius + pickupRadius of the centre of pickup q
InReach(b, q) ==
  checkPickupCollision(b, q.gridX * cellWidth + cellWidth \div 2,
                       gridOffsetY + q.gridY * cellHeight + cellHeight \div 2,
                       pickupRadius)

\* the pickups that are collected in ps and were not in the pickups of the
\* current state, by index
Collected(ps) ==
  { j \in 1..Len(pickups) : ~pickups[j].collected /\ ps[j].collected }

\* the balls that move in a frame after which launched balls are launched
Moving(launched) ==
  { i \in 1..Len(balls) :
      balls[i].active \/ (i = ballsLaunched + 1 /\ launched = i) }

RECURSIVE ValueOf(_, _)
ValueOf(ps, js) ==
  IF js = {} THEN 0
  ELSE LET j == CHOOSE k \in js : TRUE
       IN PICKUP_VALUES[ps[j].type] + ValueOf(ps, js \ {j})

\* C26: an animating frame collects exactly the uncollected pickups that a
\* ball moving in it comes within reach of; ballCount grows by the sum of the
\* values of the pickups collected in the frame, each counted once however many
\* balls are in reach, and one collect effect starts per collected pickup; a
\* pickup collected earlier adds nothing.  Outside animating frames ballCount
\* changes only when a new game starts, and it never falls during a game.
C26_CollectedOnce ==
  [][/\ \A frameMs \in SteadyFrames :
          LaunchTick(frameMs) =>
            LET after == AfterBalls(frameMs)
                collected == Collected(after.pickups)
                moving == Moving(after.ballsLaunched)
            IN /\ \A j \in 1..Len(pickups) :
                    j \in collected <=>
                      /\ ~pickups[j].collected
                      /\ \E i \in moving : InReach(after.balls[i], pickups[j])
               /\ ballCount' = ballCount + ValueOf(pickups, collected)
               /\ \A j \in collected :
                    PICKUP_VALUES[pickups[j].type] \in {1, 2, 3, 5, 10}
               /\ Cardinality({ k \in 1..Len(collectEffects') :
                                  collectEffects'[k].progress
                                    = Min(frameMs, MAX_DELTA_MS) })
                    = Cardinality(collected)
     /\ ballCount' >= ballCount \/ NewGame
     /\ ballCount' # ballCount =>
          (NewGame \/ \E frameMs \in SteadyFrames : LaunchTick(frameMs))]_vars

\* a ball is within reach of a pickup that was collected in an earlier frame
C26_BallAtCollectedPickup ==
  /\ state = "animating"
  /\ ballCount >= 2
  /\ \E j \in 1..Len(pickups), i \in 1..Len(balls) :
       /\ pickups[j].collected
       /\ pickups[j].collectProgress > MAX_DELTA_MS
       /\ balls[i].active
       /\ InReach(balls[i], pickups[j])

(************************* pause *********************************************)
\* a frame of frameMs milliseconds that finds the game paused or in settings
FrozenTick(frameMs) ==
  /\ state \in {"paused", "settings"}
  /\ \E rnd \in SpawnInputs, writeOk \in SteadyWrites :
       Becomes(gameLoop(Cur, frameMs, rnd, writeOk))

\* C27: a frame in state paused or settings leaves the balls (position,
\* velocity, active flag), the launched and returned counters, the hits and
\* the row of every brick, ballCount, level and the state as they are.
C27_PauseFreezes ==
  [][\A frameMs \in SteadyFrames :
       FrozenTick(frameMs) =>
         /\ balls' = balls
         /\ ballsLaunched' = ballsLaunched
         /\ ballsReturned' = ballsReturned
         /\ Len(bricks') = Len(bricks)
         /\ \A i \in 1..Len(bricks) :
              /\ bricks'[i].hits = bricks[i].hits
              /\ bricks'[i].gridY = bricks[i].gridY
              /\ bricks'[i].gridX = bricks[i].gridX
         /\ ballCount' = ballCount
         /\ level' = level
         /\ state' = state]_vars

\* a frame has passed in a pause that interrupted a launch sequence: a ball is
\* in flight, another is queued, and the launch clock has run on
C27_PausedInFlight ==
  /\ state = "paused"
  /\ \E i \in 1..Len(balls) : balls[i].active
  /\ ballsLaunched < Len(balls)
  /\ sinceLaunch > 0

\* a frame has passed in the settings screen opened from a pause
C27_SettingsInFlight ==
  /\ state = "settings"
  /\ \E i \in 1..Len(balls) : balls[i].active
  /\ ballsLaunched < Len(balls)
  /\ sinceLaunch > 0

(************************* destroyed bricks and game over ********************)
\* games aimed by a steep and a shallow drag until the first row of bricks has
\* come down to the last row
MaxLastRowLevel == 10
LastRowEvents == Taps({PlayPoint}) \cup Drags({PlayPoint, LowPoint})

NextLastRow ==
  \/ MenuInput(LastRowEvents)
  \/ (level <= MaxLastRowLevel /\ AimingInput(LastRowEvents))
  \/ Frame(SteadyFrames, MaxLastRowLevel + 1, SteadyWrites)

SpecLastRow == Init /\ [][NextLastRow]_vars

\* C28: a turn resolves into game over only if a brick that still has hits
\* left (one not marked destroying) stands in the last row when the balls are
\* back: a brick marked destroying does not end the game.
C28_SurvivorsEndGame ==
  [][\A frameMs \in SteadyFrames :
       (LaunchTick(frameMs) /\ turnEnded' /\ state' = "gameOver") =>
         \E i \in 1..Len(AfterBalls(frameMs).bricks) :
           /\ ~AfterBalls(frameMs).bricks[i].destroying
           /\ AfterBalls(frameMs).bricks[i].hits > 0
           /\ AfterBalls(frameMs).bricks[i].gridY + 1 >= GRID_ROWS]_vars

(************************* returning balls ***********************************)
\* C29: a ball that an animating frame deactivates and counts as returned is
\* coming down (its velocity is not upward), and it was active before the
\* frame: no ball returns in the frame that activates it.
C29_ReturnsComingDown ==
  [][\A frameMs \in FlightFrames :
       LaunchTick(frameMs) =>
         \A i \in ReturningBalls(frameMs) :
           /\ AfterBalls(frameMs).balls[i].vy >= 0
           /\ balls[i].active]_vars

(************************* ball counters *************************************)
\* C30 as stated: in every state ballsReturned, ballsLaunched and the number
\* of balls are ordered 0 <= ballsReturned <= ballsLaunched <= Len(balls); an
\* active ball is among the launched ones (the first ballsLaunched of the
\* list); and the returned counter is the number of launched balls that are
\* no longer active, so each ball is counted once.
C30_BallCounters ==
  /\ 0 <= ballsReturned
  /\ ballsReturned <= ballsLaunched
  /\ ballsLaunched <= Len(balls)
  /\ \A i \in 1..Len(balls) : balls[i].active => i <= ballsLaunched
  /\ ballsReturned
       = Cardinality({ i \in 1..Len(balls) : i <= ballsLaunched /\ ~balls[i].active })

\* C30: in every state 0 <= ballsReturned <= ballsLaunched; and while the
\* ball list holds the balls of a turn, ballsLaunched <= Len(balls), an active
\* ball is among the launched ones, and the returned counter is the number of
\* launched balls that are no longer active.  Between turns the list is empty
\* and the counters keep the values of the turn that ended.
C30_BallCountersInTurn ==
  /\ 0 <= ballsReturned
  /\ ballsReturned <= ballsLaunched
  /\ balls # <<>> =>
       /\ ballsLaunched <= Len(balls)
       /\ \A i \in 1..Len(balls) : balls[i].active => i <= ballsLaunched
       /\ ballsReturned
            = Cardinality({ i \in 1..Len(balls) :
                              i <= ballsLaunched /\ ~balls[i].active })

\* a turn with a ball back, a ball in flight and more than one ball launched
C30_OneBackOneFlying ==
  /\ state = "animating"
  /\ ballsReturned >= 1
  /\ ballsLaunched >= 2
  /\ \E i \in 1..Len(balls) : balls[i].active

\* the counters of the turn that ended, with the ball list emptied
C30_StaleCounters ==
  /\ state = "aiming"
  /\ balls = <<>>
  /\ ballsLaunched >= 1

(************************* per-axis speed ************************************)
\* C31: every ball of a turn, from its creation by launchBalls on, has the
\* absolute velocity components launchBalls gave it for the aim direction of
\* the turn: wall, brick-face and brick-corner responses change signs only.
\* The vertical component is never 0.
C31_AxisSpeeds ==
  balls # <<>> =>
    /\ aimDirection # None
    /\ \A i \in 1..Len(balls) :
         /\ Abs(balls[i].vx) = Abs(DivT(aimDirection[1].x * BALL_SPEED * PX, 1000))
         /\ Abs(balls[i].vy) = Abs(DivT(aimDirection[1].y * BALL_SPEED * PX, 1000))
         /\ balls[i].vy # 0

\* a ball in flight has been turned round on both axes, and a brick has
\* been hit in the turn
C31_TurnedOnBothAxes ==
  /\ state = "animating"
  /\ \E i \in 1..Len(balls) :
       balls[i].active /\ balls[i].vx < 0 /\ balls[i].vy > 0
  /\ \E j \in 1..Len(bricks) : bricks[j].destroying

(************************* grid cells ****************************************)
\* C32: no two bricks are in one cell, no two pickups are in one cell, and no
\* pickup is in the cell of a brick.
C32_CellsUnique ==
  /\ \A i, j \in 1..Len(bricks) :
       i # j => (bricks[i].gridX # bricks[j].gridX \/ bricks[i].gridY # bricks[j].gridY)
  /\ \A i, j \in 1..Len(pickups) :
       i # j => (pickups[i].gridX # pickups[j].gridX
                   \/ pickups[i].gridY # pickups[j].gridY)
  /\ \A i \in 1..Len(bricks), j \in 1..Len(pickups) :
       bricks[i].gridX # pickups[j].gridX \/ bricks[i].gridY # pickups[j].gridY

\* a grid after several row advances: bricks in four rows or more, and
\* pickups in two rows or more
C32_SeveralRows ==
  /\ state = "aiming"
  /\ Cardinality({ bricks[i].gridY : i \in 1..Len(bricks) }) >= 4
  /\ Cardinality({ pickups[i].gridY : i \in 1..Len(pickups) }) >= 2

(************************* aiming state **************************************)
\* the first turns of a game with every button and key: the speed button,
\* Escape in aiming and in animating, resume, restart, settings and its toggle
MaxResumeLevel == 1
ResumeTaps ==
  Taps({PlayPoint, SettingsPoint, TogglePoint, SpacePoint, EscapePoint})
ResumeEvents == ResumeTaps \cup Drags({PlayPoint})

NextResume ==
  \/ MenuInput(ResumeEvents)
  \/ (level <= MaxResumeLevel /\ AimingInput(ResumeEvents))
  \/ (level > MaxResumeLevel /\ AimingInput(ResumeTaps))
  \/ AnimatingInput(ResumeEvents)
  \/ PausedInput(ResumeEvents)
  \/ SettingsInput(ResumeEvents, SteadyWrites)
  \/ Frame(SteadyFrames, MaxResumeLevel + 1, SteadyWrites)

SpecResume == Init /\ [][NextResume]_vars

\* C33: whenever the state is aiming, the ball list is empty and the speed
\* multiplier is 1.
C33_AimingInvariant ==
  state = "aiming" => (balls = <<>> /\ speedMultiplier = 1)

\* aiming has been resumed from a pause in the second turn, after a turn
\* resolution
C33_ResumedAiming ==
  /\ state = "aiming"
  /\ previousState = "aiming"
  /\ stateWrites = <<"aiming">>
  /\ level >= 2

(************************* easy-mode relocation ******************************)
\* InputHandler's pointer state is kept in call: isDragging, startPosition
\* and lastPosition, with the number of moves of the gesture and whether its
\* aimStart was within the grab radius of the launch point in easy mode
PointerUp ==
  [fn |-> "pointer", isDragging |-> FALSE, startPosition |-> None,
   lastPosition |-> None, grabbed |-> FALSE, moves |-> 0]

MaxMoves == 3
RelocateXs == {0, centerX - 100 * PX, centerX, centerX + 100 * PX, gameWidth}
RelocateYs == {LaunchZoneY, LaunchZoneY - 20 * PX, LaunchZoneY - 200 * PX}
RelocatePoints == [x : RelocateXs, y : RelocateYs]

\* the step that leaves the Game object as g and the pointer state as c
Tracked(g, c) == Assigns(g) /\ call' = c

\* the pointer position q is within the grab radius of the launch point
InGrabRadius(q) ==
  LET ddx == q.x - launchPosition.x
      ddy == q.y - LaunchZoneY
  IN ddx * ddx + ddy * ddy < (30 * PX) * (30 * PX)

\* InputHandler.handleTouchStart / handleMouseDown
PointerDown ==
  /\ state = "aiming"
  /\ ~call.isDragging
  /\ \E q \in RelocatePoints, rnd \in SpawnInputs, writeOk \in SteadyWrites :
       Tracked(handleInput(Cur, [type |-> "aimStart", position |-> q], rnd, writeOk),
               [fn |-> "pointer", isDragging |-> TRUE, startPosition |-> Some(q),
                lastPosition |-> Some(q),
                grabbed |-> settings.easyMode /\ InGrabRadius(q), moves |-> 0])

\* InputHandler.handleTouchMove / handleMouseMove
PointerMove ==
  /\ state = "aiming"
  /\ call.isDragging
  /\ call.moves < MaxMoves
  /\ \E q \in RelocatePoints, rnd \in SpawnInputs, writeOk \in SteadyWrites :
       Tracked(handleInput(Cur, [type |-> "aimMove", position |-> q], rnd, writeOk),
               [call EXCEPT !.lastPosition = Some(q), !.moves = @ + 1])

\* InputHandler.handleTouchEnd / handleMouseUp
PointerEnd ==
  /\ state = "aiming"
  /\ call.isDragging
  /\ \E rnd \in SpawnInputs, writeOk \in SteadyWrites :
       LET position == call.lastPosition[1]
           start == call.startPosition[1]
           wasTap == /\ Abs(position.x - start.x) < 10 * PX
                     /\ Abs(position.y - start.y) < 10 * PX
           e == [type |-> IF wasTap THEN "tap" ELSE "aimEnd",
                 position |-> position]
       IN Tracked(handleInput(Cur, e, rnd, writeOk), PointerUp)

InitRelocate ==
  /\ \E store \in InitialStores : Constructed(store)
  /\ call = PointerUp

NextRelocate ==
  \/ MenuInput(Taps({PlayPoint}))
  \/ PointerDown
  \/ PointerMove
  \/ PointerEnd

SpecRelocate == InitRelocate /\ [][NextRelocate]_vars

\* C34: in a gesture that began on the launch point in easy mode, every move
\* sets launchPosition.x to the pointer's x clamped to
\* [ballRadius, gameWidth - ballRadius] and leaves the aim direction alone,
\* and the end of the gesture launches no balls; with easy mode off no input
\* changes launchPosition.x.
C34_Relocation ==
  [][/\ (call.isDragging /\ call.grabbed /\ call'.isDragging) =>
          /\ launchPosition'.x = ClampLaunchX(call'.lastPosition[1].x)
          /\ aimDirection' = aimDirection
          /\ state' = "aiming"
     /\ (call.isDragging /\ call.grabbed /\ ~call'.isDragging) =>
          (state' = "aiming" /\ balls' = <<>>)
     /\ ~settings.easyMode => launchPosition'.x = launchPosition.x]_vars

(************************* aim symmetry **************************************)
\* the aim direction an aimMove at q leaves in the game
AimAfterMove(q) ==
  handleAimingInput(Cur, [type |-> "aimMove", position |-> q]).aimDirection

\* q mirrored about the vertical line through the launch point
Mirrored(q) == [x |-> 2 * launchPosition.x - q.x, y |-> q.y]

\* C35: while aiming, an aimMove at a pointer position above the launch point
\* and an aimMove at its mirror image about the vertical line through the
\* launch point give aim directions that mirror each other: the x components
\* are opposite and the y components equal.
C35_AimSymmetry ==
  (state = "aiming" /\ ~isMovingLaunchPoint) =>
    \A q \in AimPoints :
      LaunchZoneY - q.y > 10 * PX =>
        /\ AimAfterMove(q) # None
        /\ AimAfterMove(Mirrored(q)) # None
        /\ AimAfterMove(Mirrored(q))[1].x = -AimAfterMove(q)[1].x
        /\ AimAfterMove(Mirrored(q))[1].y = AimAfterMove(q)[1].y

(************************* high-score slots **********************************)
\* the slot handleGameOver does not select
OtherSlot == IF settings.easyMode THEN "normal" ELSE "easy"

\* C36: the two high-score slots are independent and monotone: no step lowers
\* either slot, the slots change only in the step that ends the game, and that
\* step leaves the slot not selected by easyMode as it was.
C36_SlotsIndependentMonotone ==
  [][/\ highScores'.normal >= highScores.normal
     /\ highScores'.easy >= highScores.easy
     /\ highScores' # highScores => (turnEnded' /\ state' = "gameOver")
     /\ (turnEnded' /\ state' = "gameOver") =>
          /\ highScores'[OtherSlot] = highScores[OtherSlot]
          /\ settings' = settings]_vars

\* a game ended in easy mode with a new high score in the easy slot while the
\* normal slot still holds the score loaded at startup
C36_EasySlotScored ==
  /\ state = "gameOver"
  /\ turnEnded
  /\ settings.easyMode
  /\ highScores.easy = level
  /\ highScores.normal = StoredScore
  /\ level > StoredScore

(************************* loading at startup ********************************)
\* every combination of a missing, a corrupt and a valid blob under the two
\* storage keys
StoredEasyScore == 20
LoadBlobs(v) == {Missing, Corrupt, Json(v)}
LoadStores ==
  [settings : LoadBlobs([easyMode |-> TRUE]),
   highScores : LoadBlobs([normal |-> StoredScore, easy |-> StoredEasyScore])]

InitLoad ==
  /\ \E store \in LoadStores : Constructed(store)
  /\ call = None

SpecLoad == InitLoad /\ [][NextStorage]_vars

\* what one key's blob yields when it is read on its own
LoadedAlone(blob, default) ==
  IF blob.kind = "json" THEN blob.value ELSE default

\* C37: before anything is written, the settings are the stored settings or,
\* when that blob is missing or corrupt, the defaults, and the high scores
\* are the stored high scores or, when that blob is missing or corrupt, the
\* defaults: each key is loaded regardless of the other key's blob.
C37_PerKeyFallback ==
  (saveCalls.settings = 0 /\ saveCalls.highScores = 0) =>
    /\ settings = LoadedAlone(storage.settings, DefaultSettings)
    /\ highScores = LoadedAlone(storage.highScores, DefaultHighScores)

(************************* turns until game over *****************************)
\* the grid cells of the bricks of bs, and of those not marked destroying
BrickCells(bs) == { <<bs[i].gridX, bs[i].gridY>> : i \in 1..Len(bs) }
Standing(bs) == BrickCells(SelectSeq(bs, LAMBDA b : ~b.destroying))

StartedGame ==
  /\ state \in {"menu", "paused", "gameOver"}
  /\ \E rnd \in SpawnInputs : Becomes(startGame(Cur, rnd))

\* C39: after startGame the level is 1, the ball count is 1, the ball list
\* and the collect effects are empty, the speed multiplier is 1, no aim
\* direction is set, the state is aiming, and the grid is exactly one freshly
\* spawned row: every brick and pickup is in the spawn row, untouched, and the
\* row is what spawnNewRow gives for level 1.
C39_FreshGame ==
  [][StartedGame =>
       /\ level' = 1
       /\ ballCount' = 1
       /\ balls' = <<>>
       /\ collectEffects' = <<>>
       /\ speedMultiplier' = 1
       /\ aimDirection' = None
       /\ state' = "aiming"
       /\ Len(bricks') + Len(pickups') >= 1
       /\ \A i \in 1..Len(bricks') :
            /\ bricks'[i].gridY = SPAWN_ROW
            /\ ~bricks'[i].destroying
            /\ bricks'[i].hits > 0
       /\ \A i \in 1..Len(pickups') :
            pickups'[i].gridY = SPAWN_ROW /\ ~pickups'[i].collected
       /\ \E rnd \in SpawnInputs :
            /\ bricks' = spawnNewRow(1, 1, rnd).bricks
            /\ pickups' = spawnNewRow(1, 1, rnd).pickups]_vars

\* a game restarted from the pause overlay while balls of a turn with two
\* balls or more were in flight: the counters of that turn, which startGame
\* leaves alone, still show it
C39_RestartedInFlight ==
  /\ state = "aiming"
  /\ stateWrites = <<"aiming">>
  /\ level = 1
  /\ balls = <<>>
  /\ ballsLaunched >= 2
  /\ ballsReturned < ballsLaunched

====
